---- MODULE Spec2Model ----
(***************************************************************************)
(* Model of the issue-tree core of bsv (src/src/tree.rs): the hierarchy    *)
(* projector IssueTree::from_issues, the visibility walk rebuild_visible   *)
(* and the cursor / fold operations of IssueTree.                          *)
(*                                                                         *)
(* An issue id is a sequence of one-character strings, so that             *)
(* parent_from_dotted_id can search it for '.' as the code does.  A title  *)
(* is a sequence of character codes, compared lexicographically as String  *)
(* comparison does.  Option<T> is a set with no or one element.            *)
(***************************************************************************)
EXTENDS Integers, Sequences, FiniteSets, TLC

VARIABLES issues, tree, walk, app

vars == <<issues, tree, walk, app>>

(***************************************************************************)
(* Bounds of the model and pools the snapshots are drawn from.             *)
(***************************************************************************)
MaxPrio == 2
MaxDeps == 2

DOT == "."
IdA == <<"a">>
IdA1 == <<"a", DOT, "1">>
IdA2 == <<"a", DOT, "2">>
IdA11 == <<"a", DOT, "1", DOT, "1">>
IdB == <<"b">>
IdC == <<"c">>
IdD == <<"d">>
Ghost == <<"z">>

IdentPool == <<IdA, IdA1, IdA11, IdA2>>
FlatPool == <<IdA, IdB, IdC>>
Titles == {<<1>>, <<1, 2>>}
TitleAt == <<<<1>>, <<1, 2>>, <<2>>>>
Statuses == {"open", "closed"}
NoType == {}
Blocks == {"blocks"}
Related == {"related"}
DepTypes == {NoType, Blocks, Related}

IdBased == "IdBased"
DependencyBased == "DependencyBased"
Modes == {IdBased, DependencyBased}

(***************************************************************************)
(* Sequence helpers.                                                       *)
(***************************************************************************)
Range(s) == {s[i] : i \in DOMAIN s}

MaxOf(S) == CHOOSE x \in S : \A y \in S : y <= x

MinOf(S) == CHOOSE x \in S : \A y \in S : x <= y

\* Index of the first occurrence of x in s (Iterator::position), as an Option.
Position(s, x) ==
    LET hits == {i \in DOMAIN s : s[i] = x}
    IN IF hits = {} THEN {} ELSE {MinOf(hits)}

\* Mutation: the children of a dependency parent are not deduplicated.
Dedup_none(s) == s

\* Keep the first occurrence of every element (filter with HashSet::insert).
RECURSIVE Dedup(_)
Dedup(s) ==
    IF s = <<>> THEN <<>>
    ELSE LET init == Dedup(SubSeq(s, 1, Len(s) - 1))
             last == s[Len(s)]
         IN IF last \in Range(init) THEN init ELSE Append(init, last)

RECURSIVE Concat(_)
Concat(ss) == IF ss = <<>> THEN <<>> ELSE Head(ss) \o Concat(Tail(ss))

\* All orders in which the elements of a finite set can be iterated.
Orders(S) ==
    {o \in [1..Cardinality(S) -> S] : \A x \in S : \E i \in DOMAIN o : o[i] = x}

(***************************************************************************)
(* Ordering: priority.cmp(..).then_with(title.cmp(..)) and the stable      *)
(* sort_by.                                                                *)
(***************************************************************************)
IntCmp(a, b) == IF a < b THEN "Less" ELSE IF a > b THEN "Greater" ELSE "Equal"

\* String comparison: lexicographic, a proper prefix is smaller.
RECURSIVE StrCmp(_, _)
StrCmp(a, b) ==
    IF a = <<>> /\ b = <<>> THEN "Equal"
    ELSE IF a = <<>> THEN "Less"
    ELSE IF b = <<>> THEN "Greater"
    ELSE IF Head(a) # Head(b) THEN IntCmp(Head(a), Head(b))
    ELSE StrCmp(Tail(a), Tail(b))

IssueCmp(ia, ib) ==
    LET byPrio == IntCmp(ia.priority, ib.priority)
    IN IF byPrio # "Equal" THEN byPrio ELSE StrCmp(ia.title, ib.title)

\* The closure sort_fn of from_issues: both ids are keys of nodes.
sort_fn(nodes, a, b) == IssueCmp(nodes[a].issue, nodes[b].issue)

\* The closure the walks sort children with: a missing node compares Equal.
child_cmp(nodes, a, b) ==
    IF a \in DOMAIN nodes /\ b \in DOMAIN nodes
    THEN IssueCmp(nodes[a].issue, nodes[b].issue)
    ELSE "Equal"

\* Mutation: the list is left in the order it was collected in.
SortBy_unsorted(s, gt) == s

\* Stable sort of s; gt is the set of pairs <<x, y>> the comparator orders
\* Greater.  Each element is inserted after the last one not greater than it.
RECURSIVE SortBy(_, _)
SortBy(s, gt) ==
    IF s = <<>> THEN <<>>
    ELSE LET init == SortBy(SubSeq(s, 1, Len(s) - 1), gt)
             x == s[Len(s)]
             k == MaxOf({0} \cup {j \in DOMAIN init : <<init[j], x>> \notin gt})
         IN SubSeq(init, 1, k) \o <<x>> \o SubSeq(init, k + 1, Len(init))

(***************************************************************************)
(* The hierarchy projector, IssueTree::from_issues.                        *)
(***************************************************************************)
\* Mutation: the id is cut at its first '.' (find) instead of its last.
parent_from_dotted_id_first(id) ==
    LET dots == {i \in DOMAIN id : id[i] = DOT}
    IN IF dots = {} THEN {} ELSE {SubSeq(id, 1, MinOf(dots) - 1)}

\* "bsv-abc.1.2" -> Some("bsv-abc.1"), "bsv-abc" -> None   (rfind('.'))
parent_from_dotted_id(id) ==
    LET dots == {i \in DOMAIN id : id[i] = DOT}
    IN IF dots = {} THEN {} ELSE {SubSeq(id, 1, MaxOf(dots) - 1)}

IdsOf(iss) == [i \in DOMAIN iss |-> iss[i].id]

NodeIds(iss) == Range(IdsOf(iss))

\* nodes.insert(issue.id, ..): a later issue with the same id replaces an earlier.
IssueOf(iss, id) == iss[MaxOf({i \in DOMAIN iss : iss[i].id = id})]

\* Mutation: an issue is listed under every issue whose id is a dotted
\* prefix of its id, not only under the nearest.
children_map_prefix(iss, p) ==
    LET IsChild(x) ==
            /\ Len(x.id) > Len(p)
            /\ SubSeq(x.id, 1, Len(p)) = p
            /\ x.id[Len(p) + 1] = DOT
        ids == [i \in DOMAIN iss |-> iss[i].id]
        sel == SelectSeq(iss, IsChild)
    IN IF p \in {ids[i] : i \in DOMAIN ids} THEN [i \in DOMAIN sel |-> sel[i].id] ELSE <<>>

\* Second pass: the issues whose dotted-id parent is p, in snapshot order.
children_map(iss, p) ==
    LET IsChild(x) == parent_from_dotted_id(x.id) = {p}
    IN IF p \in NodeIds(iss) THEN IdsOf(SelectSeq(iss, IsChild)) ELSE <<>>

\* The dependencies whose type is not Some("related").
blocking_deps(issue) ==
    LET Blocking(d) == d.dependency_type # Related
    IN SelectSeq(issue.dependencies, Blocking)

\* Third pass: one entry for every blocking dependency on p, in snapshot order.
dep_children_map(iss, p) ==
    LET OnP(d) == d.id = p
        Pushes(x) == [j \in 1..Len(SelectSeq(blocking_deps(x), OnP)) |-> x.id]
    IN IF p \in NodeIds(iss)
       THEN Concat([i \in DOMAIN iss |-> Pushes(iss[i])])
       ELSE <<>>

\* parent_count: the issues with more than one blocking dependency.
parent_count(iss) ==
    LET many == {i \in DOMAIN iss : Len(blocking_deps(iss[i])) > 1}
    IN [id \in {iss[i].id : i \in many} |-> Len(blocking_deps(IssueOf(iss, id)))]

multi_parent_of(iss) ==
    LET pc == parent_count(iss) IN {id \in DOMAIN pc : pc[id] > 1}

\* The nodes map after the "Populate children lists" loops.
NodesOf(iss) ==
    [id \in NodeIds(iss) |->
        [issue |-> IssueOf(iss, id),
         children |-> children_map(iss, id),
         dep_children |-> Dedup(dep_children_map(iss, id)),
         depth |-> 0]]

IsIdRoot(nodes, id) ==
    LET parent == parent_from_dotted_id(id)
    IN parent = {} \/ \A p \in parent : p \notin DOMAIN nodes

\* Mutation: a blocking dependency counts whether its target exists or not.
has_blocking_deps_any(nodes, id) ==
    \E k \in DOMAIN nodes[id].issue.dependencies :
        nodes[id].issue.dependencies[k].dependency_type # Related

has_blocking_deps(nodes, id) ==
    \E k \in DOMAIN nodes[id].issue.dependencies :
        LET d == nodes[id].issue.dependencies[k]
        IN d.dependency_type # Related /\ d.id \in DOMAIN nodes

\* Mutation: every node is a dependency root.
IsDepRoot_every(nodes, id) == TRUE

IsDepRoot(nodes, id) == ~has_blocking_deps(nodes, id)

SortGt(nodes) ==
    {pr \in (DOMAIN nodes) \X (DOMAIN nodes) : sort_fn(nodes, pr[1], pr[2]) = "Greater"}

\* nodes.keys().filter(..).collect() followed by sort_by(sort_fn);
\* order is the order in which the HashMap yields its keys.
RootIdsOf(nodes, order) ==
    LET IsRoot(id) == IsIdRoot(nodes, id)
    IN SortBy(SelectSeq(order, IsRoot), SortGt(nodes))

DepRootIdsOf(nodes, order) ==
    LET IsRoot(id) == IsDepRoot(nodes, id)
    IN SortBy(SelectSeq(order, IsRoot), SortGt(nodes))

(***************************************************************************)
(* The visibility walk, IssueTree::rebuild_visible.  A tree t is the       *)
(* IssueTree struct as a record; a walk returns the tree it leaves.        *)
(***************************************************************************)
\* self.nodes.get(id).map(|node| node.issue.status == "closed").unwrap_or(false)
is_closed(t, id) ==
    IF id \in DOMAIN t.nodes THEN t.nodes[id].issue.status = "closed" ELSE FALSE

\* Mutation: every node is emitted, closed or not.
emits_always(t, id) == TRUE

\* Emission rule: self.show_closed || !is_closed
emits(t, id) == t.show_closed \/ ~is_closed(t, id)

\* A closed node while closed issues are not shown.
is_hidden(t, id) == ~t.show_closed /\ is_closed(t, id)

\* visible_items.push(id) and node.depth = depth.
push_visible(t, id, depth) ==
    [t EXCEPT !.visible_items = Append(@, id),
              !.nodes = IF id \in DOMAIN @ THEN [@ EXCEPT ![id].depth = depth] ELSE @]

\* Mutation: a hidden closed node is not traversed unless it is expanded.
should_traverse_id_expanded_only(t, id) == id \in t.expanded

\* Mutation: any entry of the fold set unfolds every node.
should_traverse_id_any_entry(t, id) == t.expanded # {} \/ is_hidden(t, id)

should_traverse_id(t, id) == id \in t.expanded \/ is_hidden(t, id)

should_traverse_dep(t, id) == id \in t.dep_expanded \/ is_hidden(t, id)

\* Mutation: the children of a hidden node are indented like any others.
child_depth_indent(t, id, depth) == depth + 1

\* Mutation: the children of a shown node are indented by two levels.
child_depth_two_levels(t, id, depth) ==
    IF is_hidden(t, id) THEN depth ELSE depth + 2

\* Children of a hidden node appear at its depth, others one level deeper.
child_depth(t, id, depth) == IF is_hidden(t, id) THEN depth ELSE depth + 1

ChildGt(t) ==
    {pr \in (DOMAIN t.nodes) \X (DOMAIN t.nodes) :
        child_cmp(t.nodes, pr[1], pr[2]) = "Greater"}

sorted_children(t, id) == SortBy(t.nodes[id].children, ChildGt(t))

sorted_dep_children(t, id) == SortBy(t.nodes[id].dep_children, ChildGt(t))

\* Mutation: the cycle check is missing.
in_current_path_never(visited, id) == FALSE

\* Mutation: the global deduplication is missing.
already_added_never(added, id) == FALSE

\* Cycle detection: the node is on the current traversal path.
in_current_path(visited, id) == id \in visited

\* Global deduplication: the node was already shown in this walk.
already_added(added, id) == id \in added

RECURSIVE add_visible_recursive_id(_, _, _)
RECURSIVE id_children_loop(_, _, _)
add_visible_recursive_id(t, id, depth) ==
    LET t1 == IF emits(t, id) THEN push_visible(t, id, depth) ELSE t
    IN IF should_traverse_id(t1, id) /\ id \in DOMAIN t1.nodes
       THEN id_children_loop(t1, sorted_children(t1, id), child_depth(t1, id, depth))
       ELSE t1

id_children_loop(t, kids, depth) ==
    IF kids = <<>> THEN t
    ELSE id_children_loop(add_visible_recursive_id(t, Head(kids), depth),
                          Tail(kids), depth)

\* The dependency walk threads st = [t, visited, added]: the tree and the two
\* sets rebuild_visible passes by mutable reference.
RECURSIVE add_visible_recursive_dep(_, _, _)
RECURSIVE dep_children_loop(_, _, _)
add_visible_recursive_dep(st, id, depth) ==
    IF in_current_path(st.visited, id) THEN st
    ELSE IF emits(st.t, id) /\ already_added(st.added, id) THEN st
    ELSE LET st1 == IF emits(st.t, id)
                    THEN [st EXCEPT !.t = push_visible(@, id, depth),
                                    !.added = @ \cup {id}]
                    ELSE st
         IN IF should_traverse_dep(st1.t, id) /\ id \in DOMAIN st1.t.nodes
            THEN LET st2 == [st1 EXCEPT !.visited = @ \cup {id}]
                     st3 == dep_children_loop(st2, sorted_dep_children(st2.t, id),
                                              child_depth(st2.t, id, depth))
                 IN [st3 EXCEPT !.visited = @ \ {id}]
            ELSE st1

dep_children_loop(st, kids, depth) ==
    IF kids = <<>> THEN st
    ELSE dep_children_loop(add_visible_recursive_dep(st, Head(kids), depth),
                           Tail(kids), depth)

\* Mutation: the cursor is not clamped after the walk.
clamp_cursor_never(t) == t

\* if self.cursor >= len && !self.visible_items.is_empty() { cursor = len - 1 }
\* Mutation: the walk ends with the cursor on the first item.
clamp_cursor_to_top(t) == [t EXCEPT !.cursor = 0]

clamp_cursor(t) ==
    IF t.cursor >= Len(t.visible_items) /\ t.visible_items # <<>>
    THEN [t EXCEPT !.cursor = Len(t.visible_items) - 1]
    ELSE t

rebuild_visible(t) ==
    LET cleared == [t EXCEPT !.visible_items = <<>>]
        walked ==
            IF t.hierarchy_mode = IdBased
            THEN id_children_loop(cleared, cleared.root_ids, 0)
            ELSE dep_children_loop([t |-> cleared, visited |-> {}, added |-> {}],
                                   cleared.dep_root_ids, 0).t
    IN clamp_cursor(walked)

\* The IssueTree from_issues builds, before its call of rebuild_visible.
Projection(iss, expanded, dep_expanded, hierarchy_mode, order) ==
    LET nodes == NodesOf(iss)
    IN [nodes |-> nodes,
        root_ids |-> RootIdsOf(nodes, order),
        dep_root_ids |-> DepRootIdsOf(nodes, order),
        expanded |-> expanded,
        dep_expanded |-> dep_expanded,
        multi_parent_ids |-> multi_parent_of(iss),
        visible_items |-> <<>>,
        cursor |-> 0,
        show_closed |-> TRUE,
        hierarchy_mode |-> hierarchy_mode]

from_issues(iss, expanded, dep_expanded, hierarchy_mode, order) ==
    rebuild_visible(Projection(iss, expanded, dep_expanded, hierarchy_mode, order))

(***************************************************************************)
(* Cursor and fold operations of IssueTree.                                *)
(***************************************************************************)
current_expanded(t) ==
    IF t.hierarchy_mode = IdBased THEN t.expanded ELSE t.dep_expanded

current_children(t, id) ==
    IF t.hierarchy_mode = IdBased THEN t.nodes[id].children ELSE t.nodes[id].dep_children

has_children_in_current_mode(t, id) ==
    IF id \in DOMAIN t.nodes THEN current_children(t, id) # <<>> ELSE FALSE

\* visible_items.get(cursor): an Option; the cursor counts from 0.
selected_id(t) ==
    IF t.cursor < Len(t.visible_items) THEN {t.visible_items[t.cursor + 1]} ELSE {}

\* Mutation: the fold sets of both modes are replaced together.
with_expanded_both(t, e) == [t EXCEPT !.expanded = e, !.dep_expanded = e]

\* The active fold-state set replaced by e.
with_expanded(t, e) ==
    IF t.hierarchy_mode = IdBased THEN [t EXCEPT !.expanded = e]
    ELSE [t EXCEPT !.dep_expanded = e]

move_up(t) == IF t.cursor > 0 THEN [t EXCEPT !.cursor = @ - 1] ELSE t

\* Mutation: the cursor moves down without regard to the end of the list.
move_down_unclamped(t) == [t EXCEPT !.cursor = @ + 1]

move_down(t) ==
    IF t.cursor + 1 < Len(t.visible_items) THEN [t EXCEPT !.cursor = @ + 1] ELSE t

move_to_top(t) == [t EXCEPT !.cursor = 0]

\* Mutation: the jump to the bottom is not guarded against an empty list.
move_to_bottom_unguarded(t) == [t EXCEPT !.cursor = Len(t.visible_items) - 1]

move_to_bottom(t) ==
    IF t.visible_items # <<>> THEN [t EXCEPT !.cursor = Len(t.visible_items) - 1] ELSE t

\* Mutation: any selected node is toggled, whether it has children or not.
toggle_expand_any(t) ==
    IF selected_id(t) = {} THEN t
    ELSE LET id == CHOOSE x \in selected_id(t) : TRUE
             e == current_expanded(t)
         IN rebuild_visible(
                with_expanded(t, IF id \in e THEN e \ {id} ELSE e \cup {id}))

\* Mutation: the selected id is put into the fold set and never taken out.
toggle_expand_insert_only(t) ==
    IF selected_id(t) = {} THEN t
    ELSE LET id == CHOOSE x \in selected_id(t) : TRUE
         IN IF has_children_in_current_mode(t, id)
            THEN rebuild_visible(with_expanded(t, current_expanded(t) \cup {id}))
            ELSE t

toggle_expand(t) ==
    IF selected_id(t) = {} THEN t
    ELSE LET id == CHOOSE x \in selected_id(t) : TRUE
             e == current_expanded(t)
         IN IF has_children_in_current_mode(t, id)
            THEN rebuild_visible(
                    with_expanded(t, IF id \in e THEN e \ {id} ELSE e \cup {id}))
            ELSE t

\* Mutation: expand puts the selected id into the fold set, children or not.
expand_any(t) ==
    IF selected_id(t) = {} THEN t
    ELSE LET id == CHOOSE x \in selected_id(t) : TRUE
             e == current_expanded(t)
         IN IF id \notin e
            THEN rebuild_visible(with_expanded(t, e \cup {id}))
            ELSE t

expand(t) ==
    IF selected_id(t) = {} THEN t
    ELSE LET id == CHOOSE x \in selected_id(t) : TRUE
             e == current_expanded(t)
         IN IF has_children_in_current_mode(t, id) /\ id \notin e
            THEN rebuild_visible(with_expanded(t, e \cup {id}))
            ELSE t

\* Mutation: collapse finds no parent to move to.
collapse_parent_none(t, id) == {}

\* The parent collapse moves to: the dotted-id parent, or in dependency mode
\* the target of the first dependency that is not "related".
collapse_parent(t, id) ==
    IF t.hierarchy_mode = IdBased THEN parent_from_dotted_id(id)
    ELSE IF id \in DOMAIN t.nodes
    THEN LET bl == blocking_deps(t.nodes[id].issue)
         IN IF bl = <<>> THEN {} ELSE {bl[1].id}
    ELSE {}

\* Mutation: collapse only ever moves the cursor to the parent.
collapse_moves_only(t) ==
    IF selected_id(t) = {} THEN t
    ELSE LET id == CHOOSE x \in selected_id(t) : TRUE
             pos == UNION {Position(t.visible_items, p) : p \in collapse_parent(t, id)}
         IN IF pos = {} THEN t
            ELSE [t EXCEPT !.cursor = (CHOOSE i \in pos : TRUE) - 1]

collapse(t) ==
    IF selected_id(t) = {} THEN t
    ELSE LET id == CHOOSE x \in selected_id(t) : TRUE
             e == current_expanded(t)
         IN IF id \in e
            THEN rebuild_visible(with_expanded(t, e \ {id}))
            ELSE LET pos == UNION {Position(t.visible_items, p) :
                                        p \in collapse_parent(t, id)}
                 IN IF pos = {} THEN t
                    ELSE [t EXCEPT !.cursor = (CHOOSE i \in pos : TRUE) - 1]

\* Mutation: a fold set naming no node with children counts as empty.
toggle_expand_all_live(t) ==
    LET e == current_expanded(t)
        withKids == {id \in DOMAIN t.nodes : current_children(t, id) # <<>>}
    IN rebuild_visible(with_expanded(t, IF e \cap withKids = {} THEN withKids ELSE {}))

toggle_expand_all(t) ==
    LET e == current_expanded(t)
        withKids == {id \in DOMAIN t.nodes : current_children(t, id) # <<>>}
    IN rebuild_visible(with_expanded(t, IF e = {} THEN withKids ELSE {}))

\* Mutation: the closed filter is flipped without walking again.
toggle_show_closed_no_walk(t) == [t EXCEPT !.show_closed = ~@]

toggle_show_closed(t) == rebuild_visible([t EXCEPT !.show_closed = ~@])

\* Mutation: the mode is switched without walking again.
set_hierarchy_mode_no_walk(t, mode) == [t EXCEPT !.hierarchy_mode = mode]

set_hierarchy_mode(t, mode) == rebuild_visible([t EXCEPT !.hierarchy_mode = mode])

(***************************************************************************)
(* The snapshots the issue source supplies: sequences of issue records     *)
(* with unique ids.  Six families, each varying what one part of the core  *)
(* reads: dotted ids with statuses, sort keys, the dependency graph with   *)
(* statuses, the kinds of dependency entry (related, dangling, repeated),  *)
(* dotted ids together with a dependency, and a shared node with a child.  *)
(***************************************************************************)
MaxIssues == 3
MaxEdges == 3

Issue(id, title, status, priority, deps) ==
    [id |-> id, title |-> title, status |-> status, priority |-> priority,
     dependencies |-> deps]

Dep(id, type) == [id |-> id, dependency_type |-> type]

\* The elements of pool at the positions in S, in pool order.
RECURSIVE Pick(_, _)
Pick(pool, S) ==
    IF pool = <<>> THEN <<>>
    ELSE LET init == Pick(SubSeq(pool, 1, Len(pool) - 1), S)
         IN IF Len(pool) \in S THEN Append(init, pool[Len(pool)]) ELSE init

SubsetsUpTo(S, n) == {X \in SUBSET S : Cardinality(X) <= n}

Selections(pool) == {Pick(pool, S) : S \in SubsetsUpTo(DOMAIN pool, MaxIssues)}

Prefixes(pool) ==
    {SubSeq(pool, 1, n) : n \in 0..MinOf({Len(pool), MaxIssues})}

\* Dotted ids and statuses vary; sort keys follow the snapshot order.
IdentSnapshots ==
    UNION {
        {[i \in DOMAIN ids |-> Issue(ids[i], TitleAt[1] \o <<i>>, st[i], 1, <<>>)] :
         st \in [DOMAIN ids -> Statuses]} :
        ids \in Selections(IdentPool)}

\* Priorities and titles vary, ties included; every issue is open.
SortKeys ==
    {[priority |-> 1, title |-> <<1, 2>>],
     [priority |-> MaxPrio, title |-> <<1>>],
     [priority |-> MaxPrio, title |-> <<1, 2>>]}

OrderShapes == {<<IdA, IdA1, IdA2>>, <<IdA1, IdA2>>, FlatPool}

OrderSnapshots ==
    UNION {
        {[i \in DOMAIN ids |->
            Issue(ids[i], key[i].title, "open", key[i].priority, <<>>)] :
         key \in [DOMAIN ids -> SortKeys]} :
        ids \in {sh \in OrderShapes : Len(sh) <= MaxIssues}}

\* The blocking edges and the statuses vary.  The first issue is a root or
\* depends on itself; every other issue depends on up to MaxDeps issues of
\* the snapshot, itself included; at most MaxEdges edges in all.  Titles run
\* against the snapshot order, so that every sort reorders.
EdgeLists(ids, allowed) ==
    {[k \in DOMAIN targets |-> Dep(targets[k], Blocks)] :
        targets \in {Pick(ids, S) : S \in SubsetsUpTo(allowed, MaxDeps)}}

RECURSIVE SumLen(_)
SumLen(ss) == IF ss = <<>> THEN 0 ELSE Len(Head(ss)) + SumLen(Tail(ss))

EdgeChoices(ids) ==
    {e \in [DOMAIN ids -> EdgeLists(ids, DOMAIN ids)] :
        /\ SumLen(e) <= MaxEdges
        /\ ids # <<>> => e[1] \in EdgeLists(ids, {1})}

GraphSnapshots ==
    UNION {
        {[i \in DOMAIN ids |-> Issue(ids[i], TitleAt[Len(ids) + 1 - i], st[i], 1, e[i])] :
         st \in [DOMAIN ids -> Statuses], e \in EdgeChoices(ids)} :
        ids \in Prefixes(FlatPool)}

\* The dependency list of the first issue varies over every sequence of up
\* to MaxDeps entries: blocking, untyped or related, on the other issue of
\* the snapshot or on an id that is not in it.
SeqsUpTo(S, n) == UNION {[1..k -> S] : k \in 0..n}

DepEntries == {Dep(id, ty) : id \in {IdB, Ghost}, ty \in DepTypes}

KindSnapshots ==
    {<<Issue(IdA, TitleAt[1], "open", 1, deps),
       Issue(IdB, TitleAt[2], "open", 1, <<>>)>> :
     deps \in SeqsUpTo(DepEntries, MaxDeps)}

\* Both hierarchies at once: a.1 is the dotted child of a and blocks on b;
\* the statuses vary.
MixedSnapshots ==
    {<<Issue(IdA, TitleAt[1], st[1], 1, <<>>),
       Issue(IdA1, TitleAt[2], st[2], 1, <<Dep(IdB, Blocks)>>),
       Issue(IdB, TitleAt[3], st[3], 1, <<>>)>> :
     st \in [1..3 -> Statuses]}

\* A node with two parents and a child of its own: c blocks on a and on b,
\* d blocks on c; a is a root or blocks on d, which closes a cycle.  The
\* statuses vary.
SharedSnapshots ==
    {<<Issue(IdA, TitleAt[1] \o <<1>>, st[1], 1, onA),
       Issue(IdB, TitleAt[1] \o <<2>>, st[2], 1, <<>>),
       Issue(IdC, TitleAt[1] \o <<3>>, st[3], 1, <<Dep(IdA, Blocks), Dep(IdB, Blocks)>>),
       Issue(IdD, TitleAt[1] \o <<4>>, st[4], 1, <<Dep(IdC, Blocks)>>)>> :
     st \in [1..4 -> Statuses], onA \in {<<>>, <<Dep(IdD, Blocks)>>}}

Snapshots ==
    IdentSnapshots \cup OrderSnapshots \cup GraphSnapshots \cup KindSnapshots
        \cup MixedSnapshots \cup SharedSnapshots

\* What from_issues is first called with: a snapshot and the fold state
\* loaded for both modes, which is empty or, for the snapshots of dotted ids
\* and of dependency kinds, a stale entry: an id that is not in the snapshot,
\* or the last issue of the snapshot, which may have no children any more.
Starts ==
    LET stale == IdentSnapshots \cup KindSnapshots
    IN (Snapshots \X {{}})
          \cup (stale \X {{Ghost}})
          \cup {<<s, {s[Len(s)].id}>> : s \in stale \ {<<>>}}

(***************************************************************************)
(* The navigation machine: one action per public operation of IssueTree.   *)
(***************************************************************************)
\* No walk is in progress between operations.
Idle ==
    [pc |-> "idle", stack |-> <<>>, roots |-> <<>>, visited |-> {}, added |-> {},
     cut |-> FALSE]

\* An IssueTree driven on its own, without the application around it: no
\* load is in progress and the preference store is empty.
NoApp ==
    [hierarchy_mode |-> IdBased, is_loading |-> FALSE, data_rx |-> "none",
     result |-> <<>>, fresh |-> FALSE,
     store |-> [expanded |-> {}, dep_expanded |-> {}, hierarchy_mode |-> {}],
     source |-> <<>>, fs_rx |-> FALSE, cooldown |-> FALSE, events |-> 0,
     stale |-> FALSE,
     focus |-> "Tree", selected_details |-> {}, last_selected_id |-> {},
     detail_scroll |-> 0, edit_state |-> {},
     session |-> {}, panicked |-> FALSE]

Init ==
    /\ \E start \in Starts, m \in Modes :
        /\ issues = start[1]
        /\ \E order \in Orders(NodeIds(issues)) :
              tree = from_issues(issues, start[2], start[2], m, order)
    /\ walk = Idle
    /\ app = NoApp

MoveUp == tree' = move_up(tree) /\ UNCHANGED <<issues, walk, app>>

MoveDown == tree' = move_down(tree) /\ UNCHANGED <<issues, walk, app>>

MoveToTop == tree' = move_to_top(tree) /\ UNCHANGED <<issues, walk, app>>

MoveToBottom == tree' = move_to_bottom(tree) /\ UNCHANGED <<issues, walk, app>>

ToggleExpand == tree' = toggle_expand(tree) /\ UNCHANGED <<issues, walk, app>>

Expand == tree' = expand(tree) /\ UNCHANGED <<issues, walk, app>>

Collapse == tree' = collapse(tree) /\ UNCHANGED <<issues, walk, app>>

ToggleExpandAll == tree' = toggle_expand_all(tree) /\ UNCHANGED <<issues, walk, app>>

ToggleShowClosed == tree' = toggle_show_closed(tree) /\ UNCHANGED <<issues, walk, app>>

SetHierarchyMode ==
    /\ \E m \in Modes : tree' = set_hierarchy_mode(tree, m)
    /\ UNCHANGED <<issues, walk, app>>

\* from_issues called again on the same snapshot with the tree's fold state.
Reproject ==
    /\ \E order \in Orders(NodeIds(issues)) :
          tree' = from_issues(issues, tree.expanded, tree.dep_expanded,
                              tree.hierarchy_mode, order)
    /\ UNCHANGED <<issues, walk, app>>

Next ==
    \/ MoveUp
    \/ MoveDown
    \/ MoveToTop
    \/ MoveToBottom
    \/ ToggleExpand
    \/ Expand
    \/ Collapse
    \/ ToggleExpandAll
    \/ ToggleShowClosed
    \/ SetHierarchyMode
    \/ Reproject

Spec == Init /\ [][Next]_vars

(***************************************************************************)
(* The navigation machine started on a tree that from_issues built with    *)
(* both fold sets empty.                                                   *)
(***************************************************************************)
CleanInit == Init /\ tree.expanded = {} /\ tree.dep_expanded = {}

CleanSpec == CleanInit /\ [][Next]_vars

(***************************************************************************)
(* The dependency walk step by step: rebuild_visible in DependencyBased    *)
(* mode with the recursion of add_visible_recursive_dep as an explicit     *)
(* call stack, one frame per active call.  walk.cut records that the cycle *)
(* check has cut a descent.                                                *)
(***************************************************************************)
MaxStack == 6

Frame(id, depth) ==
    [id |-> id, depth |-> depth, entered |-> FALSE, kids |-> <<>>, kid_depth |-> 0]

Top == walk.stack[Len(walk.stack)]

Pop == SubSeq(walk.stack, 1, Len(walk.stack) - 1)

\* The walk is entered from any fold state, with closed issues shown or not.
WalkInit ==
    /\ issues \in GraphSnapshots \cup SharedSnapshots
    /\ \E fold \in SUBSET NodeIds(issues), sc \in BOOLEAN,
          order \in Orders(NodeIds(issues)) :
            tree = [Projection(issues, {}, fold, DependencyBased, order)
                        EXCEPT !.show_closed = sc]
    /\ walk = [pc |-> "walking", stack |-> <<>>, roots |-> tree.dep_root_ids,
               visited |-> {}, added |-> {}, cut |-> FALSE]
    /\ app = NoApp

\* for root_id in &self.dep_root_ids.clone() { self.add_visible_recursive_dep(..) }
WalkNextRoot ==
    /\ walk.pc = "walking" /\ walk.stack = <<>> /\ walk.roots # <<>>
    /\ walk' = [walk EXCEPT !.stack = <<Frame(Head(walk.roots), 0)>>,
                            !.roots = Tail(@)]
    /\ UNCHANGED <<issues, tree, app>>

\* Mutation: a call on a node that was already shown skips the emission only
\* and still decides whether to traverse.
WalkEnter_descends ==
    /\ walk.pc = "walking" /\ walk.stack # <<>> /\ ~Top.entered
    /\ LET id == Top.id
           fresh == emits(tree, id) /\ ~already_added(walk.added, id)
           t1 == IF fresh THEN push_visible(tree, id, Top.depth) ELSE tree
       IN IF in_current_path(walk.visited, id)
          THEN /\ walk' = [walk EXCEPT !.stack = Pop, !.cut = TRUE]
               /\ UNCHANGED tree
          ELSE /\ tree' = t1
               /\ IF should_traverse_dep(t1, id) /\ id \in DOMAIN t1.nodes
                  THEN walk' = [walk EXCEPT
                            !.added = IF fresh THEN @ \cup {id} ELSE @,
                            !.visited = @ \cup {id},
                            !.stack[Len(walk.stack)] =
                                [Top EXCEPT !.entered = TRUE,
                                            !.kids = sorted_dep_children(t1, id),
                                            !.kid_depth = child_depth(t1, id, Top.depth)]]
                  ELSE walk' = [walk EXCEPT
                            !.added = IF fresh THEN @ \cup {id} ELSE @,
                            !.stack = Pop]
    /\ UNCHANGED <<issues, app>>

\* A call starts: the cycle check, the emission, the decision to traverse.
WalkEnter ==
    /\ walk.pc = "walking" /\ walk.stack # <<>> /\ ~Top.entered
    /\ LET id == Top.id
           shown == emits(tree, id)
           t1 == IF shown THEN push_visible(tree, id, Top.depth) ELSE tree
       IN IF in_current_path(walk.visited, id)
          THEN /\ walk' = [walk EXCEPT !.stack = Pop, !.cut = TRUE]
               /\ UNCHANGED tree
          ELSE IF shown /\ already_added(walk.added, id)
          THEN /\ walk' = [walk EXCEPT !.stack = Pop]
               /\ UNCHANGED tree
          ELSE /\ tree' = t1
               /\ IF should_traverse_dep(t1, id) /\ id \in DOMAIN t1.nodes
                  THEN walk' = [walk EXCEPT
                            !.added = IF shown THEN @ \cup {id} ELSE @,
                            !.visited = @ \cup {id},
                            !.stack[Len(walk.stack)] =
                                [Top EXCEPT !.entered = TRUE,
                                            !.kids = sorted_dep_children(t1, id),
                                            !.kid_depth = child_depth(t1, id, Top.depth)]]
                  ELSE walk' = [walk EXCEPT
                            !.added = IF shown THEN @ \cup {id} ELSE @,
                            !.stack = Pop]
    /\ UNCHANGED <<issues, app>>

\* for child_id in children { self.add_visible_recursive_dep(&child_id, ..) }
WalkDescend ==
    /\ walk.pc = "walking" /\ walk.stack # <<>> /\ Top.entered /\ Top.kids # <<>>
    /\ Len(walk.stack) < MaxStack
    /\ walk' = [walk EXCEPT
            !.stack = Append([@ EXCEPT ![Len(@)].kids = Tail(@)],
                             Frame(Head(Top.kids), Top.kid_depth))]
    /\ UNCHANGED <<issues, tree, app>>

\* visited.remove(id) and the call returns.
WalkReturn ==
    /\ walk.pc = "walking" /\ walk.stack # <<>> /\ Top.entered /\ Top.kids = <<>>
    /\ walk' = [walk EXCEPT !.stack = Pop, !.visited = @ \ {Top.id}]
    /\ UNCHANGED <<issues, tree, app>>

\* Every root is walked: the cursor is clamped and rebuild_visible returns.
WalkFinish ==
    /\ walk.pc = "walking" /\ walk.stack = <<>> /\ walk.roots = <<>>
    /\ tree' = clamp_cursor(tree)
    /\ walk' = [walk EXCEPT !.pc = "done"]
    /\ UNCHANGED <<issues, app>>

WalkNext ==
    \/ WalkNextRoot
    \/ WalkEnter
    \/ WalkDescend
    \/ WalkReturn
    \/ WalkFinish

\* The walk is straight-line code: a step that can be taken is taken.
WalkSpec == WalkInit /\ [][WalkNext]_vars /\ WF_vars(WalkNext)

\* The stepwise walk ends with the tree the operator rebuild_visible computes.
WalkAgrees == walk.pc = "done" => tree = rebuild_visible(tree)

(***************************************************************************)
(* The application around the tree: App of main.rs with its loader thread, *)
(* the file watcher, the refresh cooldown of the main loop and the         *)
(* preference store of state.rs.                                           *)
(*   app.data_rx   "none": no receiver; "loading": the loader thread has   *)
(*                 not sent yet; "ready": its result waits in the channel  *)
(*   app.result    the issues the loader thread read                       *)
(*   app.store     the project's entry of the preference store             *)
(*   app.source    the issues the issue tracker holds now                  *)
(*   app.fs_rx     a file-change event waits in the watcher's channel      *)
(*   app.cooldown  last_refresh.elapsed() < refresh_cooldown               *)
(*   app.events    file changes and refresh requests so far                *)
(*   app.stale     a file change or refresh request happened after the     *)
(*                 read of the snapshot the tree was built from            *)
(*   app.fresh     no such event happened after the read of app.result     *)
(*   app.focus, app.selected_details, app.last_selected_id,                *)
(*   app.detail_scroll, app.edit_state: the fields of App of these names,  *)
(*                 an Option as a set with at most one element; of the     *)
(*                 selected issue's details only the id is kept            *)
(*   app.session   the issue id an edit session was started on             *)
(*   app.panicked  an arithmetic overflow has aborted the program          *)
(***************************************************************************)
MaxEvents == 2

\* save_expanded: only the identifier-mode set is replaced, the rest of the
\* project's entry is written back as it was read.
save_expanded(store, expanded) == [store EXCEPT !.expanded = expanded]

save_tree_state(store, expanded, dep_expanded, hierarchy_mode) ==
    [store EXCEPT !.expanded = expanded,
                  !.dep_expanded = dep_expanded,
                  !.hierarchy_mode = {hierarchy_mode}]

\* hierarchy_mode.unwrap_or_default(): IdBased is the default mode.
load_tree_state(store) ==
    [expanded |-> store.expanded,
     dep_expanded |-> store.dep_expanded,
     hierarchy_mode |-> IF store.hierarchy_mode = {} THEN IdBased
                        ELSE CHOOSE m \in store.hierarchy_mode : TRUE]

\* bd::get_issue_details(id).ok().flatten(): the details of an issue the
\* issue tracker holds now, as an Option.
get_issue_details(a, id) == IF id \in NodeIds(a.source) THEN {id} ELSE {}

\* update_selected_details: the details are fetched again, and the scroll
\* offset of the details panel reset, when the selection is not the one
\* they were last fetched for.
update_selected_details(a, t) ==
    LET current_id == selected_id(t)
    IN IF current_id # a.last_selected_id
       THEN [a EXCEPT
               !.selected_details =
                   IF current_id = {} THEN {}
                   ELSE get_issue_details(a, CHOOSE id \in current_id : TRUE),
               !.last_selected_id = current_id,
               !.detail_scroll = 0]
       ELSE a

\* is_editing: keys go to handle_edit_key while an edit is open.
is_editing(a) == a.edit_state # {}

\* Mutation: a loader thread is spawned whether or not a load is in progress.
refresh_unguarded(a) == [a EXCEPT !.is_loading = TRUE, !.data_rx = "loading"]

\* refresh: nothing happens while a load is in progress, else a loader
\* thread is spawned.
refresh(a) ==
    IF a.is_loading THEN a
    ELSE [a EXCEPT !.is_loading = TRUE, !.data_rx = "loading"]

\* Mutation: the new tree keeps the cursor of the walk and is not moved to
\* the issue that was selected.
check_data_loaded_no_restore(a, t, order) ==
    LET has_existing_tree == t.visible_items # <<>>
        fold == IF has_existing_tree
                THEN [expanded |-> t.expanded, dep_expanded |-> t.dep_expanded]
                ELSE load_tree_state(a.store)
        built == from_issues(a.result, fold.expanded, fold.dep_expanded,
                             a.hierarchy_mode, order)
    IN rebuild_visible([built EXCEPT !.show_closed = t.show_closed])

\* The tree check_data_loaded installs when the loader's result has arrived.
check_data_loaded(a, t, order) ==
    LET selected == selected_id(t)
        has_existing_tree == t.visible_items # <<>>
        fold == IF has_existing_tree
                THEN [expanded |-> t.expanded, dep_expanded |-> t.dep_expanded]
                ELSE load_tree_state(a.store)
        built == from_issues(a.result, fold.expanded, fold.dep_expanded,
                             a.hierarchy_mode, order)
        shown == rebuild_visible([built EXCEPT !.show_closed = t.show_closed])
        pos == IF selected = {} THEN {}
               ELSE Position(shown.visible_items, CHOOSE id \in selected : TRUE)
    IN IF pos = {} THEN shown
       ELSE [shown EXCEPT !.cursor = (CHOOSE i \in pos : TRUE) - 1]

\* The fold commands of handle_tree_key.
FoldKeys == {"expand", "collapse", "toggle_expand", "toggle_expand_all"}

fold_key(t, key) ==
    CASE key = "expand" -> expand(t)
      [] key = "collapse" -> collapse(t)
      [] key = "toggle_expand" -> toggle_expand(t)
      [] key = "toggle_expand_all" -> toggle_expand_all(t)

MoveKeys == {"move_down", "move_up", "move_to_top", "move_to_bottom"}

move_key(t, key) ==
    CASE key = "move_down" -> move_down(t)
      [] key = "move_up" -> move_up(t)
      [] key = "move_to_top" -> move_to_top(t)
      [] key = "move_to_bottom" -> move_to_bottom(t)

\* The preference-store entry after a fold command that left the tree new.
store_after_fold_key(store, new) == save_expanded(store, new.expanded)

\* What the issue tracker can hold: the dotted child a.1 of a blocks on b,
\* all open or all closed, or a.1 is gone.
AppTrio(status) ==
    <<Issue(IdA, TitleAt[1], status, 1, <<>>),
      Issue(IdA1, TitleAt[2], status, 1, <<Dep(IdB, Blocks)>>),
      Issue(IdB, TitleAt[3], status, 1, <<>>)>>

AppSources ==
    {AppTrio("open"), AppTrio("closed"),
     <<Issue(IdA, TitleAt[1], "open", 1, <<>>),
       Issue(IdB, TitleAt[3], "open", 1, <<>>)>>}

\* The project's entry of the preference store at startup: none yet, or
\* what an earlier run saved.
AppStores ==
    {[expanded |-> {}, dep_expanded |-> {}, hierarchy_mode |-> {}],
     [expanded |-> {IdA}, dep_expanded |-> {}, hierarchy_mode |-> {DependencyBased}]}

\* App::new_async and the start of the main loop: the tree is empty, the
\* first load is under way and last_refresh is now.
AppInit ==
    /\ \E store \in AppStores, source \in AppSources :
        LET loaded == load_tree_state(store)
        IN /\ tree = from_issues(<<>>, loaded.expanded, loaded.dep_expanded,
                                 loaded.hierarchy_mode, <<>>)
           /\ app = [hierarchy_mode |-> loaded.hierarchy_mode,
                     is_loading |-> TRUE, data_rx |-> "loading",
                     result |-> <<>>, fresh |-> FALSE,
                     store |-> store, source |-> source,
                     fs_rx |-> FALSE, cooldown |-> TRUE, events |-> 0,
                     stale |-> FALSE,
                     focus |-> "Tree", selected_details |-> {},
                     last_selected_id |-> {}, detail_scroll |-> 0,
                     edit_state |-> {}, session |-> {}, panicked |-> FALSE]
    /\ issues = <<>>
    /\ walk = Idle

\* The issue tracker's files change and the watcher sends an event.
AppFileChange ==
    /\ app.events < MaxEvents
    /\ \E source \in AppSources \ {app.source} :
          app' = [app EXCEPT !.source = source, !.fs_rx = TRUE,
                             !.events = @ + 1, !.stale = TRUE, !.fresh = FALSE]
    /\ UNCHANGED <<issues, tree, walk>>

\* Time passes: the refresh cooldown is over.
AppCooldownOver ==
    /\ app.cooldown
    /\ app' = [app EXCEPT !.cooldown = FALSE]
    /\ UNCHANGED <<issues, tree, walk>>

\* The main loop finds file-change events: they are drained, and a refresh
\* is started only when the cooldown has passed.
AppFsCheck ==
    /\ app.fs_rx
    /\ app' = IF app.cooldown THEN [app EXCEPT !.fs_rx = FALSE]
              ELSE [refresh(app) EXCEPT !.fs_rx = FALSE, !.cooldown = TRUE]
    /\ UNCHANGED <<issues, tree, walk>>

\* The key 'r'.
AppRefreshKey ==
    /\ ~is_editing(app)
    /\ app.events < MaxEvents
    /\ app' = update_selected_details(
                 [refresh(app) EXCEPT !.events = @ + 1, !.stale = TRUE,
                                      !.fresh = FALSE], tree)
    /\ UNCHANGED <<issues, tree, walk>>

\* The loader thread reads the issues and sends them.
AppLoaderSends ==
    /\ app.data_rx = "loading"
    /\ app' = [app EXCEPT !.data_rx = "ready", !.result = app.source,
                          !.fresh = TRUE]
    /\ UNCHANGED <<issues, tree, walk>>

\* What check_data_loaded does to the App besides replacing its tree,
\* before it fetches the details again: the result is taken from the
\* channel and the load is over.
result_taken(a) ==
    [a EXCEPT !.is_loading = FALSE, !.data_rx = "none", !.result = <<>>,
              !.stale = ~a.fresh, !.fresh = FALSE, !.last_selected_id = {}]

\* check_data_loaded with a result in the channel.
AppCheckDataLoaded ==
    /\ app.data_rx = "ready"
    /\ \E order \in Orders(NodeIds(app.result)) :
          tree' = check_data_loaded(app, tree, order)
    /\ issues' = app.result
    /\ app' = update_selected_details(result_taken(app), tree')
    /\ UNCHANGED walk

\* The steps of check_data_loaded as the App sees them, whatever tree is
\* built: the result is taken and the details are those of no issue or of
\* an issue of the result.
AppResultTaken ==
    /\ app.data_rx = "ready"
    /\ \/ app' = result_taken(app)
       \/ \E id \in NodeIds(app.result) :
             app' = [result_taken(app) EXCEPT
                        !.selected_details = get_issue_details(app, id),
                        !.last_selected_id = {id},
                        !.detail_scroll = 0]

\* The cursor keys of handle_tree_key.
AppMoveKey ==
    /\ ~is_editing(app) /\ app.focus = "Tree"
    /\ \E key \in MoveKeys : tree' = move_key(tree, key)
    /\ app' = update_selected_details(app, tree')
    /\ UNCHANGED <<issues, walk>>

\* handle_mouse: a click on a row of the tree panel selects its item and
\* gives the tree the focus, whether or not an edit is open.
AppClick ==
    /\ \E clicked_index \in 0..(Len(tree.visible_items) - 1) :
          tree' = [tree EXCEPT !.cursor = clicked_index]
    /\ app' = update_selected_details([app EXCEPT !.focus = "Tree"], tree')
    /\ UNCHANGED <<issues, walk>>

\* The fold keys of handle_tree_key, each followed by save_expanded.
AppFoldKey ==
    /\ ~is_editing(app) /\ app.focus = "Tree"
    /\ \E key \in FoldKeys :
          /\ tree' = fold_key(tree, key)
          /\ app' = update_selected_details(
                       [app EXCEPT !.store = store_after_fold_key(@, tree')],
                       tree')
    /\ UNCHANGED <<issues, walk>>

\* The key 'c'.
AppShowClosedKey ==
    /\ ~is_editing(app)
    /\ tree' = toggle_show_closed(tree)
    /\ app' = update_selected_details(app, tree')
    /\ UNCHANGED <<issues, walk>>

\* The key 'd': toggle_hierarchy_mode.
AppHierarchyKey ==
    LET mode == IF app.hierarchy_mode = IdBased THEN DependencyBased ELSE IdBased
    IN /\ ~is_editing(app)
       /\ tree' = set_hierarchy_mode(tree, mode)
       /\ app' = update_selected_details(
                    [app EXCEPT
                        !.hierarchy_mode = mode,
                        !.store = save_tree_state(@, tree'.expanded,
                                                  tree'.dep_expanded, mode)],
                    tree')
       /\ UNCHANGED <<issues, walk>>

AppNext ==
    \/ AppFileChange
    \/ AppCooldownOver
    \/ AppFsCheck
    \/ AppRefreshKey
    \/ AppLoaderSends
    \/ AppCheckDataLoaded
    \/ AppMoveKey
    \/ AppClick
    \/ AppFoldKey
    \/ AppShowClosedKey
    \/ AppHierarchyKey

AppSpec == AppInit /\ [][AppNext]_vars

\* What starts, carries out and applies a load.  The keys that move the
\* cursor, fold and filter touch neither the loader nor the channels.
AppLoadNext ==
    \/ AppFileChange
    \/ AppCooldownOver
    \/ AppFsCheck
    \/ AppRefreshKey
    \/ AppLoaderSends
    \/ AppCheckDataLoaded

\* The main loop keeps turning, the loader thread runs to its end and time
\* passes; nothing obliges the user or the issue tracker to act.  A result
\* is taken from the channel by check_data_loaded only.
AppLoadSpec ==
    /\ AppInit
    /\ [][AppLoadNext]_vars
    /\ WF_app(AppResultTaken)
    /\ WF_vars(AppFsCheck)
    /\ WF_vars(AppLoaderSends)
    /\ WF_vars(AppCooldownOver)

(***************************************************************************)
(* The details panel: editing.  Of the text in an edit buffer the model    *)
(* keeps which text it is: 0 is the value the edit was started with        *)
(* (EditState.original), any other number a text that differs from it.     *)
(***************************************************************************)
MaxText == 1

Texts == 0..MaxText

EditFields == {"Title", "Description"}

\* EditState::new: the buffer starts as the original value.
EditState(issue_id, field) == [issue_id |-> issue_id, field |-> field, buffer |-> 0]

is_modified(edit) == edit.buffer # 0

\* start_edit: an edit of the issue whose details are shown, if any.
start_edit(a, field) ==
    IF a.selected_details = {} THEN a
    ELSE [a EXCEPT
            !.edit_state = {EditState(CHOOSE id \in a.selected_details : TRUE, field)},
            !.focus = "Details"]

cancel_edit(a) == [a EXCEPT !.edit_state = {}]

\* save_edit, given whether the bd update succeeds.  A failed update returns
\* through `?` before edit_state is cleared; a successful one writes to the
\* issue tracker's files, which the watcher reports.
save_edit(a, t, ok) ==
    IF a.edit_state = {} THEN a
    ELSE LET edit == CHOOSE e \in a.edit_state : TRUE
         IN IF ~is_modified(edit) THEN [a EXCEPT !.edit_state = {}]
            ELSE IF ~ok THEN a
            ELSE [update_selected_details(
                      [a EXCEPT !.last_selected_id = {}, !.fs_rx = TRUE,
                                !.stale = TRUE, !.fresh = FALSE], t)
                    EXCEPT !.edit_state = {}]

EditKeys == {"Esc", "CtrlS", "Enter", "Tab", "BackTab", "Char"}

\* handle_edit_key.  text is what the buffer holds after a key that changes
\* it, ok whether a bd update the key issues succeeds.
handle_edit_key(a, t, key, text, ok) ==
    IF a.edit_state = {} THEN (IF key = "Esc" THEN cancel_edit(a)
                               ELSE IF key = "CtrlS" THEN save_edit(a, t, ok)
                               ELSE a)
    ELSE LET edit == CHOOSE e \in a.edit_state : TRUE
             typed == [a EXCEPT !.edit_state = {[edit EXCEPT !.buffer = text]}]
         IN CASE key = "Esc" -> cancel_edit(a)
              [] key = "CtrlS" -> save_edit(a, t, ok)
              [] key = "Enter" ->
                    IF edit.field = "Title"
                    THEN start_edit(save_edit(a, t, ok), "Description")
                    ELSE typed
              [] key = "Tab" ->
                    IF edit.field = "Title"
                    THEN start_edit(save_edit(a, t, ok), "Description")
                    ELSE typed
              [] key = "BackTab" ->
                    IF edit.field = "Description"
                    THEN start_edit(save_edit(a, t, ok), "Title")
                    ELSE a
              [] key = "Char" -> typed

\* The edit session is over when no edit is open.
session_of(a) == IF a.edit_state = {} THEN [a EXCEPT !.session = {}] ELSE a

\* Enter in the tree panel gives the details panel the focus; h, Left and
\* Esc in the details panel give it back.
PanelFocusKey ==
    /\ ~is_editing(app)
    /\ app' = update_selected_details(
                 [app EXCEPT !.focus = IF @ = "Tree" THEN "Details" ELSE "Tree"],
                 tree)
    /\ UNCHANGED <<issues, tree, walk>>

\* handle_details_key: e starts an edit of the description, i of the title.
\* An edit session starts on the issue the edit is on.
PanelEditKey ==
    /\ ~is_editing(app) /\ app.focus = "Details"
    /\ \E field \in EditFields :
          LET started == start_edit(app, field)
          IN app' = update_selected_details(
                        [started EXCEPT !.session =
                            {e.issue_id : e \in started.edit_state}], tree)
    /\ UNCHANGED <<issues, tree, walk>>

\* A key while an edit is open.
EditKey ==
    /\ is_editing(app)
    /\ \E key \in EditKeys, text \in Texts, ok \in BOOLEAN :
          app' = update_selected_details(
                     session_of(handle_edit_key(app, tree, key, text, ok)), tree)
    /\ UNCHANGED <<issues, tree, walk>>

\* Key events, clicks on the tree and the background load in any order.
EditNext ==
    \/ PanelFocusKey
    \/ PanelEditKey
    \/ EditKey
    \/ AppClick
    \/ AppFileChange
    \/ AppCooldownOver
    \/ AppFsCheck
    \/ AppRefreshKey
    \/ AppLoaderSends
    \/ AppCheckDataLoaded

EditSpec == AppInit /\ [][EditNext]_vars

(***************************************************************************)
(* The details panel: scrolling.  detail_scroll is a u16 and the sum in    *)
(* scroll_details is computed in i16.                                      *)
(***************************************************************************)
U16Max == 65535

I16Min == -32768

I16Max == 32767

\* x as i16 for a u16 x: the same 16 bits read as a signed number.
as_i16(x) == IF x > I16Max THEN x - 65536 ELSE x

\* The i16 a sum wraps to where overflow is not checked.
wrapping_i16(n) == ((n - I16Min) % 65536) + I16Min

\* scroll_details: what the build can produce.  Where the i16 sum overflows
\* a build with overflow checks panics and one without wraps.
scroll_details(a, delta) ==
    LET sum == as_i16(a.detail_scroll) + delta
        max0(n) == IF n > 0 THEN n ELSE 0
    IN IF sum >= I16Min /\ sum <= I16Max
       THEN {[a EXCEPT !.detail_scroll = max0(sum)]}
       ELSE {[a EXCEPT !.panicked = TRUE],
             [a EXCEPT !.detail_scroll = max0(wrapping_i16(sum))]}

\* j/k and the arrows, the page keys, the mouse wheel.
ScrollDeltas == {1, -1, 10, -10, 3, -3}

\* The details panel has the focus and shows no issue yet.
ScrollInit ==
    /\ issues = <<>>
    /\ tree = from_issues(<<>>, {}, {}, IdBased, <<>>)
    /\ walk = Idle
    /\ app = [NoApp EXCEPT !.focus = "Details"]

\* handle_details_key: j, k, Down, Up, PageDown, PageUp, Ctrl+d, Ctrl+u.
PanelScrollKey ==
    /\ ~app.panicked /\ ~is_editing(app) /\ app.focus = "Details"
    /\ \E delta \in {1, -1, 10, -10} :
          \E new \in scroll_details(app, delta) :
              app' = update_selected_details(new, tree)
    /\ UNCHANGED <<issues, tree, walk>>

\* The mouse wheel over the details panel.
PanelWheel ==
    /\ ~app.panicked /\ app.focus = "Details"
    /\ \E delta \in {3, -3} : app' \in scroll_details(app, delta)
    /\ UNCHANGED <<issues, tree, walk>>

\* handle_details_key: g and Home.
PanelHomeKey ==
    /\ ~app.panicked /\ ~is_editing(app) /\ app.focus = "Details"
    /\ app' = update_selected_details([app EXCEPT !.detail_scroll = 0], tree)
    /\ UNCHANGED <<issues, tree, walk>>

\* handle_details_key: G and End.
PanelEndKey ==
    /\ ~app.panicked /\ ~is_editing(app) /\ app.focus = "Details"
    /\ app' = update_selected_details([app EXCEPT !.detail_scroll = U16Max], tree)
    /\ UNCHANGED <<issues, tree, walk>>

ScrollNext ==
    \/ PanelScrollKey
    \/ PanelWheel
    \/ PanelHomeKey
    \/ PanelEndKey

ScrollSpec == ScrollInit /\ [][ScrollNext]_vars

(***************************************************************************)

(* Properties.  The vocabulary below restates what the specification says  *)
(* in terms of the snapshot, independently of the operators above.         *)
(***************************************************************************)
Nodes == DOMAIN tree.nodes

Visible == Range(tree.visible_items)

StatusOf(id) == tree.nodes[id].issue.status

DepsOf(id) == tree.nodes[id].issue.dependencies

Count(seq, x) == Cardinality({k \in DOMAIN seq : seq[k] = x})

\* p is x cut at its last '.': a '.' follows p in x and none comes after it.
IsTruncation(x, p) ==
    \E k \in DOMAIN x :
        /\ x[k] = DOT
        /\ p = SubSeq(x, 1, k - 1)
        /\ \A j \in DOMAIN x : j > k => x[j] # DOT

IdParents(x) == {p \in Nodes : IsTruncation(x, p)}

RECURSIVE IdAncestors(_)
IdAncestors(x) == IdParents(x) \cup UNION {IdAncestors(p) : p \in IdParents(x)}

\* A has a dependency on B that is not of type "related".
BlocksOn(A, B) ==
    \E k \in DOMAIN DepsOf(A) :
        DepsOf(A)[k].dependency_type # {"related"} /\ DepsOf(A)[k].id = B

DepParents(x) == {p \in Nodes : BlocksOn(x, p)}

\* The nodes whose children a walk descends into: expanded, or hidden.
Hidden(id) == StatusOf(id) = "closed" /\ ~tree.show_closed

ActiveFold ==
    IF tree.hierarchy_mode = IdBased THEN tree.expanded ELSE tree.dep_expanded

\* a <= b as strings: a is a prefix of b, or smaller where they first differ.
LexLeq(a, b) ==
    \E k \in 0..Len(a) :
        /\ k <= Len(b)
        /\ \A j \in 1..k : a[j] = b[j]
        /\ k = Len(a) \/ (k < Len(b) /\ a[k + 1] < b[k + 1])

KeyLeq(x, y) ==
    LET ix == tree.nodes[x].issue
        iy == tree.nodes[y].issue
    IN \/ ix.priority < iy.priority
       \/ ix.priority = iy.priority /\ LexLeq(ix.title, iy.title)

SortedByKey(seq) ==
    \A i, j \in DOMAIN seq : i < j => KeyLeq(seq[i], seq[j])

\* C1: after rebuild_visible every issue id occurs at most once in
\* visible_items, in both hierarchy modes, for every snapshot (diamonds,
\* multi-parent nodes, self-loops, cycles), fold state and show_closed value.
C1_VisibleOnce ==
    \A i, j \in DOMAIN tree.visible_items :
        i # j => tree.visible_items[i] # tree.visible_items[j]

\* A shown node both of whose distinct dependency parents were descended into.
C1_Witness ==
    /\ tree.hierarchy_mode = DependencyBased
    /\ \E x \in Visible : \E p, q \in DepParents(x) :
          /\ p # q
          /\ p \in Visible /\ q \in Visible
          /\ p \in tree.dep_expanded /\ q \in tree.dep_expanded

\* C2: the dependency walk terminates for every dependency graph, fold state
\* and show_closed value: no node is entered a second time while it is on
\* the current recursion path, and rebuild_visible returns.
NoReentry ==
    /\ \A i, j \in DOMAIN walk.stack :
          (i # j /\ walk.stack[i].entered /\ walk.stack[j].entered)
              => walk.stack[i].id # walk.stack[j].id
    /\ {walk.stack[k].id : k \in {i \in DOMAIN walk.stack : walk.stack[i].entered}}
          = walk.visited

C2_WalkTerminates == []NoReentry /\ <>(walk.pc = "done")

\* The walk has ended after the cycle check cut a descent.
C2_Witness == walk.pc = "done" /\ walk.cut

\* C3 as stated: the cursor is within the visible list when that is
\* non-empty and is 0 when it is empty.
C3_CursorInRangeOrZero ==
    IF tree.visible_items # <<>>
    THEN tree.cursor \in 0..(Len(tree.visible_items) - 1)
    ELSE tree.cursor = 0

\* C3 amended: the cursor is within the visible list when that is non-empty;
\* when it is empty the cursor is not reset and is only bounded by the
\* number of issues.
C3_CursorInRange ==
    IF tree.visible_items # <<>>
    THEN tree.cursor \in 0..(Len(tree.visible_items) - 1)
    ELSE tree.cursor = 0 \/ tree.cursor < Cardinality(Nodes)

\* The cursor is on the last of several items while the closed filter hides
\* an issue.
C3_Witness ==
    /\ ~tree.show_closed
    /\ \E x \in Nodes : StatusOf(x) = "closed"
    /\ Len(tree.visible_items) >= 2
    /\ tree.cursor = Len(tree.visible_items) - 1

\* C4: in the identifier projection every issue is listed as a child of at
\* most one node, and following parents from any issue reaches an identifier
\* root in finitely many steps.
ChildListings(x) ==
    {pk \in Nodes \X (1..Cardinality(Nodes)) :
        pk[2] \in DOMAIN tree.nodes[pk[1]].children
        /\ tree.nodes[pk[1]].children[pk[2]] = x}

RECURSIVE ReachesIdRoot(_, _)
ReachesIdRoot(x, fuel) ==
    \/ x \in Range(tree.root_ids)
    \/ /\ fuel > 0
       /\ \E pk \in ChildListings(x) : ReachesIdRoot(pk[1], fuel - 1)

C4_IdForest ==
    \A x \in Nodes :
        /\ Cardinality(ChildListings(x)) <= 1
        /\ ReachesIdRoot(x, Cardinality(Nodes))

\* An issue two levels below an identifier root.
C4_Witness ==
    \E x \in Nodes : \E pk \in ChildListings(x) : ChildListings(pk[1]) # {}

\* C5: X is in children(P) iff P is X cut at its last '.' and P is in the
\* snapshot; X is an identifier root iff it has no '.' or its truncation is
\* not in the snapshot; so every issue is a root or a child of exactly one
\* issue.
C5_IdProjection ==
    /\ \A x \in Nodes, p \in Nodes :
          (x \in Range(tree.nodes[p].children)) <=> IsTruncation(x, p)
    /\ \A x \in Nodes :
          /\ (x \in Range(tree.root_ids)) <=> (IdParents(x) = {})
          /\ (x \in Range(tree.root_ids)) # (Cardinality(ChildListings(x)) = 1)

\* An id with two dots under its truncation, which is itself an orphan root.
C5_Witness ==
    /\ IdA11 \in Nodes /\ IdA1 \in Nodes /\ IdA \notin Nodes
    /\ IdA11 \in Range(tree.nodes[IdA1].children)
    /\ IdA1 \in Range(tree.root_ids)

\* C6: A occurs in dep_children(B) exactly once iff A has a dependency on B
\* that is not "related" and B is in the snapshot, and not at all otherwise;
\* A is a dependency root iff it has no such dependency on an issue of the
\* snapshot.
C6_DepProjection ==
    /\ \A a \in Nodes, b \in Nodes :
          Count(tree.nodes[b].dep_children, a) = IF BlocksOn(a, b) THEN 1 ELSE 0
    /\ \A a \in Nodes :
          (a \in Range(tree.dep_root_ids)) <=> (DepParents(a) = {})

\* An issue with two blocking entries on the same issue of the snapshot.
C6_Witness ==
    \E a \in Nodes, b \in Nodes :
        Cardinality({k \in DOMAIN DepsOf(a) :
            DepsOf(a)[k].dependency_type # {"related"} /\ DepsOf(a)[k].id = b}) >= 2

\* C7: an id is in multi_parent_ids iff the issue has more than one
\* dependency that is not "related" and whose target is in the snapshot.
SurvivingDeps(a) ==
    {k \in DOMAIN DepsOf(a) :
        DepsOf(a)[k].dependency_type # {"related"} /\ DepsOf(a)[k].id \in Nodes}

C7_MultiParentIffSurviving ==
    \A a \in Nodes :
        (a \in tree.multi_parent_ids) <=> (Cardinality(SurvivingDeps(a)) > 1)

\* C8: both root lists are sorted by (priority, title); shown siblings appear
\* in that order; with nothing expanded and closed issues shown the visible
\* list is the sorted root list of the active mode, every depth 0.
ActiveRoots ==
    IF tree.hierarchy_mode = IdBased THEN tree.root_ids ELSE tree.dep_root_ids

ActiveParents(x) ==
    IF tree.hierarchy_mode = IdBased THEN IdParents(x) ELSE DepParents(x)

C8_Ordering ==
    /\ SortedByKey(tree.root_ids)
    /\ SortedByKey(tree.dep_root_ids)
    /\ \A i, j \in DOMAIN tree.visible_items :
          LET x == tree.visible_items[i]
              y == tree.visible_items[j]
          IN (i < j /\ Cardinality(ActiveParents(x)) = 1
                    /\ ActiveParents(x) = ActiveParents(y)) => KeyLeq(x, y)
    /\ (ActiveFold = {} /\ tree.show_closed) =>
          /\ tree.visible_items = ActiveRoots
          /\ \A x \in Visible : tree.nodes[x].depth = 0

\* Nothing expanded, closed issues shown, and the first root shown is not
\* the first issue of the snapshot: the sort has reordered the roots.
C8_Witness ==
    /\ ActiveFold = {} /\ tree.show_closed
    /\ Len(tree.visible_items) >= 2
    /\ tree.visible_items = ActiveRoots
    /\ tree.visible_items[1] # issues[1].id
    /\ \A x \in Visible : tree.nodes[x].depth = 0

\* C9: from_issues called again on the same snapshot, fold state and mode
\* yields the same children lists, the same root orderings and the same
\* visible list.
SameProjection ==
    /\ tree'.root_ids = tree.root_ids
    /\ tree'.dep_root_ids = tree.dep_root_ids
    /\ \A x \in Nodes :
          /\ tree'.nodes[x].children = tree.nodes[x].children
          /\ tree'.nodes[x].dep_children = tree.nodes[x].dep_children
    /\ tree.show_closed => tree'.visible_items = tree.visible_items

C9_ReprojectionDeterministic == [][Reproject => SameProjection]_vars

\* C10: in identifier mode an issue is visible iff it passes the closed
\* filter and each of its proper ancestors in the identifier projection is
\* expanded or hidden.
C10_IdVisibility ==
    tree.hierarchy_mode = IdBased =>
        \A x \in Nodes :
            (x \in Visible) <=>
                /\ tree.show_closed \/ StatusOf(x) # "closed"
                /\ \A y \in IdAncestors(x) : y \in tree.expanded \/ Hidden(y)

\* An open issue shown under a closed parent that is hidden and not expanded.
C10_Witness ==
    /\ tree.hierarchy_mode = IdBased /\ ~tree.show_closed
    /\ \E x \in Visible : \E p \in IdParents(x) :
          StatusOf(p) = "closed" /\ p \notin tree.expanded

(***************************************************************************)
(* Depth of the shown nodes.                                               *)
(***************************************************************************)
DepthOf(x) == tree.nodes[x].depth

\* The shown nodes from which the walk comes down to x through hidden nodes
\* only: the shown parents of x and those of its hidden parents, and so on.
RECURSIVE ShownAbove(_, _)
ShownAbove(x, fuel) ==
    {p \in ActiveParents(x) : ~Hidden(p)}
        \cup (IF fuel = 0 THEN {}
              ELSE UNION {ShownAbove(h, fuel - 1) :
                            h \in {p \in ActiveParents(x) : Hidden(p)}})

\* x is a root of the active mode or lies under one through hidden nodes only.
RECURSIVE UnderHiddenRoot(_, _)
UnderHiddenRoot(x, fuel) ==
    \/ x \in Range(ActiveRoots)
    \/ /\ fuel > 0
       /\ \E h \in ActiveParents(x) : Hidden(h) /\ UnderHiddenRoot(h, fuel - 1)

\* The item the i-th shown item is displayed under: the last one before it
\* that is one level up, nothing shallower in between.
DisplayParents(i) ==
    LET vis == tree.visible_items
        d == DepthOf(vis[i])
    IN {j \in 1..(i - 1) :
          /\ DepthOf(vis[j]) = d - 1
          /\ \A k \in (j + 1)..(i - 1) : DepthOf(vis[k]) >= d}

\* C11: a root is shown at depth 0; a node is shown one level below the
\* shown node it was reached from, hidden nodes on the way adding no level;
\* in identifier mode the depth is the number of ancestors that are not
\* hidden.
C11_DepthRule ==
    \A i \in DOMAIN tree.visible_items :
        LET x == tree.visible_items[i]
        IN /\ IF DepthOf(x) = 0
              THEN UnderHiddenRoot(x, Cardinality(Nodes))
              ELSE \E j \in DisplayParents(i) :
                      /\ tree.visible_items[j] \in ShownAbove(x, Cardinality(Nodes))
                      /\ tree.visible_items[j] \in ActiveFold
           /\ tree.hierarchy_mode = IdBased =>
                 DepthOf(x) = Cardinality({y \in IdAncestors(x) : ~Hidden(y)})

\* A node shown at depth 1 below a hidden parent whose own parent is shown
\* at depth 0, and a node shown at depth 0 below a hidden root.
C11_Witness ==
    /\ \E x \in Visible : \E h \in ActiveParents(x) : \E q \in ActiveParents(h) :
          /\ Hidden(h) /\ q \in Visible
          /\ DepthOf(q) = 0 /\ DepthOf(x) = 1

(***************************************************************************)
(* The fold operations.                                                    *)
(***************************************************************************)
\* What the walk yields for a tree's snapshot, mode, fold state and filter.
WalkFor(t) == rebuild_visible(t).visible_items

WalkOf == WalkFor(tree)

\* The fold set of a tree's active mode.
FoldOf(t) == IF t.hierarchy_mode = IdBased THEN t.expanded ELSE t.dep_expanded

\* C12: in every reachable state the visible list is the result of the walk
\* for the current snapshot, hierarchy mode, active fold state and closed
\* filter: no operation leaves it stale.
C12_VisibleIsWalk == tree.visible_items = WalkOf

\* The fold state and the closed filter have both been changed: an expanded
\* node shows a child while a closed issue is hidden.
C12_Witness ==
    /\ ~tree.show_closed
    /\ \E h \in Nodes : Hidden(h)
    /\ \E x \in Visible : \E p \in ActiveParents(x) :
          p \in ActiveFold /\ p \in Visible /\ DepthOf(x) = DepthOf(p) + 1

\* The selected id, if the cursor is on an item of the visible list.
Selected ==
    IF tree.cursor < Len(tree.visible_items)
    THEN {tree.visible_items[tree.cursor + 1]}
    ELSE {}

\* The node has a child in the active mode.
HasKids(p) == \E x \in Nodes : p \in ActiveParents(x)

FoldsKept(new) ==
    /\ new.expanded = tree.expanded
    /\ new.dep_expanded = tree.dep_expanded

\* C13: toggle_expand on a selected id with a child in the active mode flips
\* the id's membership in the active fold set and recomputes the visible
\* list; otherwise fold state, visible list and cursor are unchanged.
C13_Effect(new) ==
    IF \E id \in Selected : HasKids(id)
    THEN \A id \in Selected :
            /\ FoldOf(new) = (IF id \in ActiveFold
                              THEN ActiveFold \ {id}
                              ELSE ActiveFold \cup {id})
            /\ new.visible_items = WalkFor(new)
    ELSE /\ FoldsKept(new)
         /\ new.visible_items = tree.visible_items
         /\ new.cursor = tree.cursor

C13_ToggleExpand == \A new \in {toggle_expand(tree)} : C13_Effect(new)

\* Below the first line of the list a node with children is selected and
\* unfolded, its children shown, and a node without children is shown too.
C13_Witness ==
    /\ tree.cursor > 0
    /\ \E id \in Selected :
          /\ HasKids(id) /\ id \in ActiveFold
          /\ \E x \in Visible : id \in ActiveParents(x) /\ DepthOf(x) = DepthOf(id) + 1
    /\ \E x \in Visible : ~HasKids(x)

\* The visible list after expand() immediately followed by collapse().
ExpandThenCollapse == collapse(expand(tree)).visible_items

\* C14 as stated: from any state with a selected node, expand() followed at
\* once by collapse() leaves the visible list as it was before the expand.
C14_RoundTripAny ==
    Selected # {} => ExpandThenCollapse = tree.visible_items

\* C14 amended: from any state whose selected node is not in the active
\* fold set, expand() followed at once by collapse() leaves the visible list
\* as it was; on a node that is already expanded expand() does nothing and
\* collapse() folds it.
C14_RoundTrip ==
    (Selected # {} /\ Selected \cap ActiveFold = {}) =>
        ExpandThenCollapse = tree.visible_items

\* The selected node is folded and expand() shows children of it.
C14_Witness ==
    /\ Selected # {} /\ Selected \cap ActiveFold = {}
    /\ \E id \in Selected : HasKids(id)
    /\ Len(expand(tree).visible_items) > Len(tree.visible_items)

\* C15: collapse() on a selected node that is a leaf in the active mode, or
\* that is not in the active fold set, leaves both fold sets and the visible
\* list unchanged.
C15_Effect(new) ==
    (\E id \in Selected : ~HasKids(id) \/ id \notin ActiveFold) =>
        /\ FoldsKept(new)
        /\ new.visible_items = tree.visible_items

C15_CollapseFallbackKeeps == \A new \in {collapse(tree)} : C15_Effect(new)

\* The cursor of a tree is on the id p.
CursorOn(t, p) ==
    /\ t.cursor + 1 \in DOMAIN t.visible_items
    /\ t.visible_items[t.cursor + 1] = p

\* The target of the first dependency of x that is not "related" and is on
\* an issue of the snapshot.
FirstSurviving(x) ==
    IF SurvivingDeps(x) = {} THEN {}
    ELSE {DepsOf(x)[MinOf(SurvivingDeps(x))].id}

\* C16: in dependency mode collapse() on a selected node that is not
\* expanded moves the cursor onto the node's first surviving blocking
\* dependency target, dangling targets skipped, when that target is shown.
C16_Effect(new) ==
    tree.hierarchy_mode = DependencyBased =>
        \A id \in Selected : \A p \in FirstSurviving(id) :
            (id \notin tree.dep_expanded /\ p \in Visible) => CursorOn(new, p)

C16_CollapseToFirstSurviving ==
    \A new \in {collapse(tree)} : C16_Effect(new)

\* C17: in identifier mode collapse() on a selected node that is not in the
\* expanded set moves the cursor onto the node's dotted-id parent when that
\* is in the visible list, and leaves the cursor where it is otherwise.
C17_Effect(new) ==
    tree.hierarchy_mode = IdBased =>
        \A id \in Selected :
            id \notin tree.expanded =>
                IF \E p \in Visible : IsTruncation(id, p)
                THEN \A p \in Visible : IsTruncation(id, p) => CursorOn(new, p)
                ELSE new.cursor = tree.cursor

C17_CollapseToDottedParent ==
    \A new \in {collapse(tree)} : C17_Effect(new)

\* In identifier mode the selected node is folded, its dotted parent is
\* shown, and collapse() takes the cursor off the node.
C17_Witness ==
    /\ tree.hierarchy_mode = IdBased
    /\ \E id \in Selected :
          /\ id \notin tree.expanded
          /\ \E p \in Visible : IsTruncation(id, p)
    /\ collapse(tree).cursor # tree.cursor

\* The fold set of the mode that is not active is as it was.
OtherFoldKept(new) ==
    IF tree.hierarchy_mode = IdBased
    THEN new.dep_expanded = tree.dep_expanded
    ELSE new.expanded = tree.expanded

WithKids == {id \in Nodes : HasKids(id)}

\* C18: toggle_expand_all turns an empty active fold set into the set of
\* the ids with a child in the active mode and any non-empty one, whatever
\* it holds, into the empty set; the other mode's set is unchanged and the
\* visible list is recomputed.
C18_Effect(new) ==
    /\ FoldOf(new) = (IF ActiveFold = {} THEN WithKids ELSE {})
    /\ OtherFoldKept(new)
    /\ new.hierarchy_mode = tree.hierarchy_mode
    /\ new.visible_items = WalkFor(new)

C18_ToggleExpandAll == \A new \in {toggle_expand_all(tree)} : C18_Effect(new)

\* Everything is unfolded: the active fold set is the set of the two nodes
\* with children and every issue is shown.
C18_Witness ==
    /\ Cardinality(WithKids) >= 2
    /\ ActiveFold = WithKids
    /\ Visible = Nodes

\* The trees the operations that are not fold operations lead to; from_issues
\* is given the tree's fold sets, once more with an id that is in no snapshot
\* (the order in which the map yields its keys has no part in the fold sets).
FrameResults ==
    {move_up(tree), move_down(tree), move_to_top(tree), move_to_bottom(tree),
     toggle_show_closed(tree), rebuild_visible(tree)}
        \cup {set_hierarchy_mode(tree, m) : m \in Modes}

FromIssuesKeeps ==
    \A e \in {tree.expanded, tree.expanded \cup {Ghost}} :
        LET new == from_issues(issues, e, tree.dep_expanded,
                               tree.hierarchy_mode, IdsOf(issues))
        IN new.expanded = e /\ new.dep_expanded = tree.dep_expanded

FoldResults ==
    {expand(tree), collapse(tree), toggle_expand(tree), toggle_expand_all(tree)}

\* C19: the cursor moves, toggle_show_closed, set_hierarchy_mode,
\* rebuild_visible and from_issues leave both fold sets as they were,
\* from_issues storing the sets it is given with ids that are in no snapshot;
\* expand, collapse, toggle_expand and toggle_expand_all change the set of
\* the active mode only.
C19_FoldFrame ==
    /\ \A new \in FrameResults : FoldsKept(new)
    /\ FromIssuesKeeps
    /\ \A new \in FoldResults :
          OtherFoldKept(new) /\ new.hierarchy_mode = tree.hierarchy_mode

\* The two fold sets differ after a fold operation, both still hold the id
\* that is in no snapshot, and the closed filter has been switched on.
C19_Witness ==
    /\ tree.expanded # tree.dep_expanded
    /\ Ghost \in tree.expanded /\ Ghost \in tree.dep_expanded
    /\ ~tree.show_closed

\* The issues, both children maps, the root lists and the flags of a tree
\* are those of the current one; the depth written by the walk is not
\* compared.
SameNodeData(new) ==
    /\ DOMAIN new.nodes = Nodes
    /\ \A x \in Nodes :
          /\ new.nodes[x].issue = tree.nodes[x].issue
          /\ new.nodes[x].children = tree.nodes[x].children
          /\ new.nodes[x].dep_children = tree.nodes[x].dep_children
    /\ new.root_ids = tree.root_ids
    /\ new.dep_root_ids = tree.dep_root_ids
    /\ new.multi_parent_ids = tree.multi_parent_ids
    /\ new.show_closed = tree.show_closed

\* C20: set_hierarchy_mode(m) changes no node data and neither fold set;
\* the visible list afterwards is the walk in mode m; switching back to the
\* mode left restores the visible list.
C20_Effect(m, new) ==
    /\ SameNodeData(new)
    /\ FoldsKept(new)
    /\ new.hierarchy_mode = m
    /\ new.visible_items = WalkFor([tree EXCEPT !.hierarchy_mode = m])
    /\ set_hierarchy_mode(new, tree.hierarchy_mode).visible_items
          = tree.visible_items

C20_SetHierarchyMode ==
    \A m \in Modes : \A new \in {set_hierarchy_mode(tree, m)} : C20_Effect(m, new)

\* Each mode has its own node unfolded, and in dependency mode a.1 is shown
\* below b, not below a.
C20_Witness ==
    /\ tree.hierarchy_mode = DependencyBased
    /\ IdA \in tree.expanded /\ IdB \in tree.dep_expanded
    /\ IdA \notin tree.dep_expanded /\ IdB \notin tree.expanded
    /\ IdA1 \in Visible
    /\ DepthOf(IdA1) = 1

(***************************************************************************)
(* Cursor movement, the closed filter, stale fold entries.                 *)
(***************************************************************************)
\* A tree differs from the current one in its cursor at most.
OnlyCursorMoved(new) == [new EXCEPT !.cursor = tree.cursor] = tree

\* C21: move_up takes the cursor to max(cursor-1, 0), move_to_top to 0, and
\* on a non-empty list move_down to min(cursor+1, len-1) and move_to_bottom
\* to len-1; none of them changes anything but the cursor.
C21_CursorMoves ==
    LET len == Len(tree.visible_items)
    IN /\ \A new \in {move_up(tree)} :
             /\ new.cursor = MaxOf({tree.cursor - 1, 0})
             /\ OnlyCursorMoved(new)
       /\ \A new \in {move_to_top(tree)} :
             new.cursor = 0 /\ OnlyCursorMoved(new)
       /\ \A new \in {move_down(tree)} :
             /\ len > 0 => new.cursor = MinOf({tree.cursor + 1, len - 1})
             /\ OnlyCursorMoved(new)
       /\ \A new \in {move_to_bottom(tree)} :
             /\ len > 0 => new.cursor = len - 1
             /\ OnlyCursorMoved(new)

\* With closed issues shown the cursor is on the last of at least three
\* lines, below the first two.
C21_Witness ==
    /\ tree.show_closed
    /\ Len(tree.visible_items) >= 3
    /\ tree.cursor = Len(tree.visible_items) - 1

\* The trees the operations that are no-ops on an empty list lead to.
EmptyListIdle ==
    {move_down(tree), move_to_bottom(tree), expand(tree), collapse(tree),
     toggle_expand(tree)}

\* C22 as stated: when the visible list is empty, move_up, move_down,
\* move_to_top, move_to_bottom, expand, collapse and toggle_expand change
\* neither the cursor nor the fold sets nor the visible list.
C22_EmptyListNoOps ==
    tree.visible_items = <<>> =>
        \A new \in EmptyListIdle \cup {move_up(tree), move_to_top(tree)} :
            new = tree

\* C22 amended: when the visible list is empty, move_down, move_to_bottom,
\* expand, collapse and toggle_expand change nothing; move_up and
\* move_to_top change nothing but a cursor left over from a longer list,
\* which they take one down and to 0.
C22_EmptyList ==
    tree.visible_items = <<>> =>
        /\ \A new \in EmptyListIdle : new = tree
        /\ \A new \in {move_up(tree)} :
              new.cursor = MaxOf({tree.cursor - 1, 0}) /\ OnlyCursorMoved(new)
        /\ \A new \in {move_to_top(tree)} :
              new.cursor = 0 /\ OnlyCursorMoved(new)

\* The closed filter has emptied the list of a snapshot that has issues and
\* the cursor is still where it was.
C22_Witness ==
    /\ tree.visible_items = <<>>
    /\ Nodes # {}
    /\ tree.cursor > 0

\* C23: toggle_show_closed flips show_closed, keeps both fold sets and the
\* mode, and walks again; while show_closed is false no closed issue is in
\* the visible list, in either mode.
C23_Effect(new) ==
    /\ new.show_closed = ~tree.show_closed
    /\ FoldsKept(new)
    /\ new.hierarchy_mode = tree.hierarchy_mode
    /\ new.visible_items = WalkFor(new)

C23_ClosedFilter ==
    /\ \A new \in {toggle_show_closed(tree)} : C23_Effect(new)
    /\ ~tree.show_closed => \A x \in Visible : StatusOf(x) # "closed"

\* In dependency mode an open issue is shown while the closed issue it
\* blocks on is filtered out.
C23_Witness ==
    /\ tree.hierarchy_mode = DependencyBased
    /\ ~tree.show_closed
    /\ \E x \in Visible : \E c \in DepParents(x) :
          StatusOf(c) = "closed" /\ c \notin Visible

\* The tree with the fold entries that name no issue of the snapshot removed.
LiveFolds ==
    [tree EXCEPT !.expanded = @ \cap Nodes, !.dep_expanded = @ \cap Nodes]

\* C24: fold entries naming ids that are not in the snapshot are inert: the
\* visible list and the depths are those of the walk without them.
C24_StaleFoldInert ==
    \A w \in {rebuild_visible(LiveFolds)} :
        /\ w.visible_items = tree.visible_items
        /\ \A x \in Visible : w.nodes[x].depth = DepthOf(x)

\* The active fold set holds an id that is in no snapshot next to a node
\* whose child is shown, and a node with children is shown folded.
C24_Witness ==
    /\ Ghost \in ActiveFold
    /\ \E p \in Visible : HasKids(p) /\ p \notin ActiveFold
    /\ \E x \in Visible : \E p \in ActiveParents(x) : p \in ActiveFold /\ p \in Visible

\* The issues x blocks on, directly or through others.
RECURSIVE DepAncestors(_, _)
DepAncestors(x, fuel) ==
    IF fuel = 0 THEN {}
    ELSE DepParents(x) \cup UNION {DepAncestors(p, fuel - 1) : p \in DepParents(x)}

Acyclic == \A x \in Nodes : x \notin DepAncestors(x, Cardinality(Nodes))

\* C25: in dependency mode, for an acyclic graph with every node that has
\* dependency children expanded and closed issues shown, every issue of the
\* snapshot is in the visible list exactly once.
C25_AllShownOnce ==
    (/\ tree.hierarchy_mode = DependencyBased
     /\ tree.show_closed
     /\ Acyclic
     /\ WithKids \subseteq tree.dep_expanded) =>
        /\ Len(tree.visible_items) = Cardinality(Nodes)
        /\ Visible = Nodes

\* Everything is unfolded and an issue blocks on two issues one of which
\* blocks on the other: it is reached along paths of lengths one and two.
C25_Witness ==
    /\ tree.hierarchy_mode = DependencyBased /\ tree.show_closed /\ Acyclic
    /\ WithKids \subseteq tree.dep_expanded
    /\ \E x \in Nodes : \E p, q \in DepParents(x) : p # q /\ p \in DepParents(q)
    /\ Len(tree.visible_items) = Cardinality(Nodes)

(***************************************************************************)
(* The application: snapshot refresh, the preference store, the triggers   *)
(* of a refresh.                                                           *)
(***************************************************************************)
\* The trees check_data_loaded can install now that a result waits in the
\* channel, one for each iteration order of the node map.
Reloads ==
    IF app.data_rx = "ready"
    THEN {check_data_loaded(app, tree, order) :
              order \in Orders(NodeIds(app.result))}
    ELSE {}

\* C26: after check_data_loaded has applied a snapshot, the cursor is on the
\* issue id that was selected before if that id is in the new visible list
\* and is 0 otherwise; show_closed and the hierarchy mode are what they were
\* before the refresh.
C26_RefreshKeepsSelection ==
    \A new \in Reloads :
        /\ \A id \in Selected :
              id \in Range(new.visible_items) => CursorOn(new, id)
        /\ Selected \cap Range(new.visible_items) = {} => new.cursor = 0
        /\ new.show_closed = tree.show_closed
        /\ new.hierarchy_mode = tree.hierarchy_mode

\* A refresh is applied while closed issues are hidden: the selected issue
\* is found at another index of the new list, which is not the first.
C26_Witness ==
    \E new \in Reloads :
        /\ ~tree.show_closed
        /\ Selected # {} /\ Selected \subseteq Range(new.visible_items)
        /\ new.cursor # tree.cursor /\ new.cursor > 0
        /\ new.visible_items # tree.visible_items

\* C27: a snapshot refresh never changes fold state: the tree that
\* check_data_loaded installs has the identifier-mode and the
\* dependency-mode fold sets of the tree it replaces, also when the visible
\* list was empty before the refresh.
C27_RefreshKeepsFolds ==
    \A new \in Reloads :
        /\ new.expanded = tree.expanded
        /\ new.dep_expanded = tree.dep_expanded

\* C28: after every fold command (expand, collapse, toggle_expand,
\* toggle_expand_all) in either mode the preference store holds both fold
\* sets as they are in memory.
C28_FoldKeysSaveBoth ==
    \A key \in FoldKeys :
        \A new \in {fold_key(tree, key)} :
            \A store \in {store_after_fold_key(app.store, new)} :
                /\ store.expanded = new.expanded
                /\ store.dep_expanded = new.dep_expanded

\* C29: after every file-change event and every refresh request the tree is
\* eventually replaced by one built from a snapshot read after it.
C29_EventuallyRebuilt == app.stale ~> ~app.stale

(***************************************************************************)
(* The global-once rule of the dependency walk.                            *)
(***************************************************************************)
\* A call is about to start on a node that was shown earlier in this walk
\* and is not on the current path.
ReachedAgain ==
    /\ walk.pc = "walking" /\ walk.stack # <<>>
    /\ ~Top.entered
    /\ Top.id \in walk.added
    /\ Top.id \notin walk.visited

\* The dependency walk in which a node shown earlier is not shown again but
\* is traversed like any other.
RECURSIVE walk_skipping_emission(_, _, _)
RECURSIVE walk_skipping_emission_loop(_, _, _)
walk_skipping_emission(st, id, depth) ==
    IF id \in st.visited THEN st
    ELSE LET shown == (st.t.show_closed \/ ~is_closed(st.t, id)) /\ id \notin st.added
             st1 == IF shown
                    THEN [st EXCEPT !.t = push_visible(@, id, depth),
                                    !.added = @ \cup {id}]
                    ELSE st
         IN IF (id \in st1.t.dep_expanded \/ is_hidden(st1.t, id))
                 /\ id \in DOMAIN st1.t.nodes
            THEN LET st2 == [st1 EXCEPT !.visited = @ \cup {id}]
                     st3 == walk_skipping_emission_loop(
                                st2, sorted_dep_children(st2.t, id),
                                child_depth(st2.t, id, depth))
                 IN [st3 EXCEPT !.visited = @ \ {id}]
            ELSE st1

walk_skipping_emission_loop(st, kids, depth) ==
    IF kids = <<>> THEN st
    ELSE walk_skipping_emission_loop(
            walk_skipping_emission(st, Head(kids), depth), Tail(kids), depth)

SkippingEmissionList ==
    walk_skipping_emission_loop(
        [t |-> [tree EXCEPT !.visible_items = <<>>], visited |-> {}, added |-> {}],
        tree.dep_root_ids, 0).t.visible_items

\* C30 as stated: a call on a node that was shown earlier in the walk skips
\* the emission only; if the node is in the fold set its children are
\* descended into again.
C30_StillDescends ==
    [][(ReachedAgain /\ Top.id \in tree.dep_expanded) =>
          /\ tree' = tree
          /\ Len(walk'.stack) = Len(walk.stack)
          /\ walk'.stack[Len(walk.stack)].entered
          /\ Top.id \in walk'.visited]_vars

\* C30 amended: a call on a node that was shown earlier in the walk returns
\* at once, without emitting and without descending; the list the walk ends
\* with is the one a walk that skipped the emission only would give.
C30_SkipsEntirely ==
    /\ [][ReachedAgain =>
             /\ tree' = tree
             /\ walk'.stack = Pop
             /\ walk'.visited = walk.visited
             /\ walk'.added = walk.added]_vars
    /\ [](walk.pc = "done" => tree.visible_items = SkippingEmissionList)

\* A call is about to start on an expanded node with dependency children
\* that was shown earlier in this walk.
C30_Witness ==
    /\ ReachedAgain
    /\ Top.id \in tree.dep_expanded
    /\ tree.nodes[Top.id].dep_children # <<>>

(***************************************************************************)
(* One background load at a time.                                          *)
(***************************************************************************)
\* A step takes the loader's result out of the channel.
ResultLeaves == app.data_rx = "ready" /\ app'.data_rx # "ready"

\* C31: at most one background load is in flight: is_loading is true iff
\* data_rx holds a receiver; refresh while a load is in progress starts no
\* load and changes nothing; a result leaves the channel only by being
\* applied to the tree, after which the channel is gone, so it is applied
\* exactly once; and every load that was started ends with is_loading false.
C31_OneLoadInFlight ==
    /\ [](app.is_loading <=> app.data_rx # "none")
    /\ [](app.is_loading => refresh(app) = app)
    /\ [][ResultLeaves =>
            /\ tree' \in Reloads
            /\ issues' = app.result
            /\ app'.data_rx = "none" /\ ~app'.is_loading]_vars
    /\ [][app.data_rx = "loading" /\ app'.data_rx # "loading" =>
            app'.data_rx = "ready" /\ app'.is_loading]_vars
    /\ (app.is_loading ~> ~app.is_loading)

\* A refresh was asked for while the result of a load waits in the channel.
C31_Witness ==
    /\ app.is_loading /\ app.data_rx = "ready"
    /\ app.stale /\ ~app.fresh /\ app.events > 0
    /\ app.result # <<>>

(***************************************************************************)
(* Folding and the selection.                                              *)
(***************************************************************************)
\* C32: toggle_expand applied twice in a row restores the navigation state:
\* the active fold set, the visible list and the cursor are what they were
\* before the first toggle, in either mode.
C32_ToggleTwice ==
    \A once \in {toggle_expand(tree)} :
        \A twice \in {toggle_expand(once)} :
            /\ FoldOf(twice) = FoldOf(tree)
            /\ twice.visible_items = tree.visible_items
            /\ twice.cursor = tree.cursor

\* The two toggles act: the first one collapses a node that is not the first
\* of the list and hides a child, the second one shows it again.
C32_Witness ==
    \E id \in Selected :
        /\ tree.cursor > 0 /\ id \in ActiveFold
        /\ Len(toggle_expand(tree).visible_items) < Len(tree.visible_items)
        /\ toggle_expand(toggle_expand(tree)) = tree

\* The items of a list up to and including index c (counted from 0).
UpTo(items, c) == SubSeq(items, 1, c + 1)

\* The selected id and everything before it are where they were.
C33_Kept(new) ==
    /\ new.cursor = tree.cursor
    /\ UpTo(new.visible_items, new.cursor) = UpTo(tree.visible_items, tree.cursor)

\* C33: expand, toggle_expand and a collapse that changes fold state keep
\* the selected issue selected, in either mode: no item at or before the
\* selected index changes.
C33_SelectionKept ==
    Selected # {} =>
        /\ \A new \in {expand(tree)} :
              C33_Kept(new) /\ selected_id(new) = Selected
        /\ \A new \in {toggle_expand(tree)} :
              C33_Kept(new) /\ selected_id(new) = Selected
        /\ \A new \in {collapse(tree)} :
              FoldOf(new) # FoldOf(tree) =>
                  C33_Kept(new) /\ selected_id(new) = Selected

\* In dependency mode a node that is not the first of the list is expanded
\* and takes a child that was shown further down under another parent.
C33_Witness ==
    \E id \in Selected : \E new \in {expand(tree)} :
        /\ tree.hierarchy_mode = DependencyBased /\ tree.cursor > 0
        /\ FoldOf(new) # FoldOf(tree)
        /\ \E x \in Visible :
              /\ Position(tree.visible_items, x) # Position(new.visible_items, x)
              /\ x \in Range(new.visible_items)

(***************************************************************************)
(* Dependency mode: what the roots reach.                                  *)
(***************************************************************************)
\* The nodes that block on nothing that is in the snapshot.
Unblocked == {x \in Nodes : DepParents(x) = {}}

\* S with everything that blocks on a node of S, and so on.
RECURSIVE BlockedBelow(_, _)
BlockedBelow(S, fuel) ==
    IF fuel = 0 THEN S
    ELSE BlockedBelow(S \cup {x \in Nodes : DepParents(x) \cap S # {}}, fuel - 1)

ReachedFromRoots == BlockedBelow(Unblocked, Cardinality(Nodes))

\* C34: in dependency mode only issues that a dependency root reaches along
\* dependency-children edges are in the visible list; the issues of a cycle
\* that no root reaches never appear, whatever the fold state and the
\* closed filter.
C34_OnlyReachedShown ==
    tree.hierarchy_mode = DependencyBased => Visible \subseteq ReachedFromRoots

\* Two issues block on each other and no root reaches them, beside a root
\* that is shown; everything that has children is expanded.
C34_Witness ==
    /\ tree.hierarchy_mode = DependencyBased /\ tree.show_closed
    /\ WithKids \subseteq tree.dep_expanded
    /\ tree.visible_items # <<>>
    /\ \E x, y \in Nodes \ ReachedFromRoots :
          x # y /\ BlocksOn(x, y) /\ BlocksOn(y, x)

(***************************************************************************)
(* Indentation.                                                            *)
(***************************************************************************)
\* C35: indentation is well-formed in either mode: the first item of a
\* non-empty visible list has depth 0 and every item is at most one level
\* deeper than the item before it, also below hidden closed ancestors and
\* where the dependency walk drops repeated nodes.
C35_IndentWellFormed ==
    LET vis == tree.visible_items
    IN /\ vis # <<>> => DepthOf(vis[1]) = 0
       /\ \A i \in 1..(Len(vis) - 1) : DepthOf(vis[i + 1]) <= DepthOf(vis[i]) + 1

\* Closed issues are hidden and an item two levels deep follows its parent;
\* in dependency mode a shown node has two parents.
C35_Witness ==
    LET vis == tree.visible_items
    IN /\ ~tree.show_closed /\ \E h \in Nodes : Hidden(h) /\ HasKids(h)
       /\ \E i \in 1..(Len(vis) - 1) :
             DepthOf(vis[i + 1]) = DepthOf(vis[i]) + 1 /\ DepthOf(vis[i + 1]) >= 1
       /\ \E i \in 1..(Len(vis) - 1) : DepthOf(vis[i + 1]) < DepthOf(vis[i])

(***************************************************************************)
(* What the operations put into the fold sets.                             *)
(***************************************************************************)
\* C36: from a tree built with both fold sets empty on a fixed snapshot,
\* after any sequence of operations every id in expanded has an identifier
\* child and every id in dep_expanded has a dependency child: no leaf and
\* no id that is not in the snapshot is ever inserted.
C36_FoldsHaveChildren ==
    /\ \A p \in tree.expanded : p \in Nodes /\ \E x \in Nodes : p \in IdParents(x)
    /\ \A p \in tree.dep_expanded : p \in Nodes /\ \E x \in Nodes : p \in DepParents(x)

\* Both fold sets have been filled by operations in the two modes, on a
\* snapshot that has leaves in the active mode.
C36_Witness ==
    /\ tree.expanded # {} /\ tree.dep_expanded # {}
    /\ tree.expanded # tree.dep_expanded
    /\ Nodes \ WithKids # {}

(***************************************************************************)
(* Editing an issue.                                                       *)
(***************************************************************************)
\* C37: an edit session stays on one issue: while an edit is open, the
\* issue it is on, which is the issue every bd update of save_edit goes to
\* and the issue of every follow-on edit that Enter, Tab or Shift+Tab
\* starts, is the issue the session was started on, whatever key events,
\* clicks on the tree and refresh completions come in between.
C37_EditStaysOnIssue ==
    \A edit \in app.edit_state : edit.issue_id \in app.session

\* The keys that save the edit of a field.
SaveKeys(field) ==
    IF field = "Title" THEN {"CtrlS", "Enter", "Tab"} ELSE {"CtrlS", "BackTab"}

\* C38: a failed save never discards the user's text: when the bd update
\* that save_edit issues fails, edit_state holds the same issue id, field
\* and unsaved buffer after the key that triggered the save was handled.
C38_FailedSaveKeepsText ==
    \A edit \in app.edit_state :
        is_modified(edit) =>
            \A key \in SaveKeys(edit.field) :
                \A new \in {handle_edit_key(app, tree, key, edit.buffer, FALSE)} :
                    new.edit_state = app.edit_state

(***************************************************************************)

(* Scrolling the details panel.                                            *)
(***************************************************************************)
\* C39: scroll_details(delta) sets detail_scroll to max(0, detail_scroll +
\* delta) for every reachable value of detail_scroll, the value u16::MAX
\* that End sets included: scrolling down never decreases it and the i16
\* sum neither wraps nor overflows.
C39_ScrollSaturates ==
    ~app.panicked =>
        \A delta \in ScrollDeltas :
            \A new \in scroll_details(app, delta) :
                /\ ~new.panicked
                /\ new.detail_scroll =
                      (IF app.detail_scroll + delta > 0
                       THEN app.detail_scroll + delta ELSE 0)
                /\ delta > 0 => new.detail_scroll >= app.detail_scroll

====
